---- MODULE Spec2Model ----
(***************************************************************************)
(* Turn orchestration engine of the chess benchmark: the game loop of      *)
(* GameOrchestrator, the per-player clocks of GameTimerManager, the turn   *)
(* pointer of PlayerManager and the summary the orchestrator reads from    *)
(* ChessGameManager.  The loop is one asynchronous function; it is cut at  *)
(* the awaits that yield to the event loop (move request, backoff sleep,   *)
(* inter-move sleep, pause poll, forfeit question).                        *)
(* Between two such awaits the code runs atomically; pauseGame, resumeGame *)
(* and the 100 ms interval callbacks of the timers interleave at them.     *)
(* Further specifications call the timer manager's methods directly, run   *)
(* the game with LLMPlayerImpl.requestMove as the move source, and follow  *)
(* the 'game:start' and 'game:reset' handlers of GameWebSocketServer.      *)
(***************************************************************************)
EXTENDS Integers, Sequences, FiniteSets, TLC

(* ------------------------------ bounds -------------------------------- *)

\* initial allotment of each clock, in ms (configuration.*.initialTimeMs)
InitialTimeMs == 100

\* number of 100 ms periods the wall clock may advance
MaxTicks == 2

\* number of legal moves after which the rules engine reports game over
MaxPlies == 2

\* clock ticks followed in the runs that check termination
MaxLiveTicks == 1

\* number of legal moves after which the game is over in the runs that check termination
MaxLivePlies == 1

\* number of legal moves after which the game is over in the runs that follow the clocks
MaxClockPlies == 4

\* number of startGame calls followed on one orchestrator
MaxGames == 2

\* allotment, in ms, of the timers in the runs that call the timer manager directly
TimerAllotmentMs == 500

\* number of tick intervals of one participant followed at the same time
MaxIntervals == 2

\* number of 'game:start' events the server is followed through
MaxServerStarts == 3

(* ------------------------- program constants -------------------------- *)

maxRetries == 3

maxAttempts == 3

TickMs == 100

LoopIncrementMs == 5000

RateLimitWaitMs == 15000

ApiErrorWaitMs == 3000

NoJsonWaitMs == 2000

(* ------------------------------ values -------------------------------- *)

WHITE == "white"

BLACK == "black"

PlayerColor == {WHITE, BLACK}

\* GameStatus enum
NOT_STARTED == "not_started"

IN_PROGRESS == "in_progress"

CHECK == "check"

CHECKMATE == "checkmate"

STALEMATE == "stalemate"

DRAW == "draw"

PAUSED == "paused"

TIMEOUT == "timeout"

\* GameStatus.FORFEIT (the same string as ErrorResolution.FORFEIT)
STATUS_FORFEIT == "forfeit"

\* ErrorResolution enum
RETRY == "retry"

FORFEIT == "forfeit"

PAUSE_GAME == "pause"

END_GAME == "end"

\* TimerType enum
FISCHER == "fischer"

BRONSTEIN == "bronstein"

SIMPLE == "simple"

TimerType == {FISCHER, BRONSTEIN, SIMPLE}

None == "none"

NoTime == -1

\* the lastStartTime a stopped timer is left with: pauseTimer does not clear the
\* field, and nothing reads more of an old start instant than that it is there
Stale == -2

\* no failure handled yet in this turn
NoError == [type |-> None, player |-> None, move |-> None]

\* processGameLoop has not returned
NoResult == [result |-> None, winner |-> None, reason |-> "", drawReason |-> None, moveCount |-> 0]

\* no move request outstanding
NoContext == [player |-> None, invalidMoveFeedback |-> [move |-> None, attempt |-> 0]]

\* no entry in lastInvalidMoveReason
NoFeedback == [move |-> None, attempt |-> 0]

\* no response text: the API call did not return one
NoText == [json |-> None, from |-> "", to |-> "", promotion |-> "", offerDraw |-> FALSE]

\* no MoveResponse
NoMove == [from |-> "", to |-> "", promotion |-> "", offerDraw |-> FALSE]

\* requestMove has not been called outside a game
NoRequest ==
  [possibleMoves |-> <<>>,
   api |-> [rejected |-> FALSE, message |-> {}, text |-> NoText],
   outcome |-> [threw |-> FALSE, message |-> {}, move |-> NoMove]]

\* the last step called no GameTimerManager method from outside
NoCall == [op |-> None, playerId |-> None, threw |-> FALSE, value |-> 0, expired |-> FALSE]

\* GameWebSocketServer after construction: no game, no orchestrator (0), no handler started
ServerConstructed ==
  [gameInProgress |-> FALSE, orchestrator |-> 0,
   handlers |-> [i \in 1..MaxServerStarts |-> [pc |-> "unused", loopOn |-> 0]]]

Opponent(color) == IF color = WHITE THEN BLACK ELSE WHITE

\* the id under which a participant's timer is kept
PlayerId(color) == color

Max(a, b) == IF a >= b THEN a ELSE b

Min(a, b) == IF a <= b THEN a ELSE b

(* --------------------- move responses and failures -------------------- *)

\* MoveResponse values the move source may return
MoveResponses ==
  { [from |-> "e2", to |-> "e4", promotion |-> "", offerDraw |-> d] : d \in BOOLEAN } \cup
  { [from |-> "e7", to |-> "e5", promotion |-> "", offerDraw |-> d] : d \in BOOLEAN } \cup
  { [from |-> "e7", to |-> "e8", promotion |-> "q", offerDraw |-> d] : d \in BOOLEAN }

\* the ledger key: `${from}${to}${promotion || ''}`
MoveStr(move) == move.from \o move.to \o move.promotion

MoveStrs == { MoveStr(m) : m \in MoveResponses }

\* an error message is represented by the set of substrings the code tests
\* it for (String.includes) that occur in it
ErrorMessages ==
  { {"Rate limit"}, {"LLMApiError"}, {"Failed to parse move", "parse"},
    {"No JSON found", "JSON"}, {} }

Includes(message, fragment) == fragment \in message

(* ------------------------------- state -------------------------------- *)

VARIABLES
  gameStatus,             \* GameOrchestrator.gameStatus
  isPaused,               \* GameOrchestrator.isPaused
  moveCount,              \* GameOrchestrator.moveCount
  invalidMoveAttempts,    \* GameOrchestrator.invalidMoveAttempts: player -> move -> count (0 = no entry)
  lastInvalidMoveReason,  \* GameOrchestrator.lastInvalidMoveReason: player -> feedback or None
  retryCount,             \* LLMPlayerImpl.retryCount of each player
  capabilities,           \* which optional methods the player objects have
  currentPlayerColor,     \* PlayerManager.currentPlayerColor
  timerManager,           \* GameTimerManager: timers, intervals, timerConfig
  now,                    \* the wall clock (new Date()), in ms
  gameManager,            \* ChessGameManager: chess position summary, moveHistory, gameStatus
  pc,                     \* where startGame or processGameLoop is suspended, or how it ended
  attemptCount,           \* processTurn's attemptCount of the turn in progress or last returned
  sleepMs,                \* duration of the sleep the loop is suspended in (0 = none)
  gameContext,            \* the GameContext handed to the outstanding requestMove
  result,                 \* the GameResult processGameLoop returned, or None
  lastError,              \* the failure most recently given to handleError, or None
  lastResolution,         \* the ErrorResolution handleError returned for it
  rejectedLog,            \* history: per player, the move strings the rules engine rejected, in order
  lastCall,               \* history: the external call (pauseGame/resumeGame) made by the last step
  configuration,          \* the GameConfiguration the game is started with
  requestError,           \* processTurn's caught error while its backoff sleep runs: <<message>>
  failuresSinceMove,      \* history: per participant, the Errors handleError got since its last applied move
  gamesStarted,           \* history: the number of startGame calls made on the orchestrator
  timerCall,              \* history: the GameTimerManager method a caller invoked in the last step, and its outcome
  server,                 \* GameWebSocketServer: gameInProgress, orchestrator, and its 'game:start' handlers
  moveRequest             \* history: the last requestMove call made on an LLMPlayerImpl outside a game

orchestratorVars == <<gameStatus, isPaused, moveCount, invalidMoveAttempts, lastInvalidMoveReason>>

loopVars == <<pc, attemptCount, sleepMs, gameContext, result, lastError, lastResolution>>

vars == <<gameStatus, isPaused, moveCount, invalidMoveAttempts, lastInvalidMoveReason,
          retryCount, capabilities, currentPlayerColor, timerManager, now, gameManager,
          pc, attemptCount, sleepMs, gameContext, result, lastError, lastResolution,
          rejectedLog, lastCall, configuration, requestError, failuresSinceMove,
          gamesStarted, timerCall, server, moveRequest>>

(* --------------------------- GameTimerManager ------------------------- *)

\* a timer initialised with the allotment the manager was constructed with
initializeTimer_FromManagerConfig(tm, playerId, config) ==
  [tm EXCEPT !.timers =
     [id \in (DOMAIN tm.timers) \cup {playerId} |->
        IF id = playerId
        THEN [remainingTimeMs |-> tm.timerConfig.initialTimeMs, isRunning |-> FALSE,
              lastStartTime |-> NoTime]
        ELSE tm.timers[id]]]

\* initializeTimer: a fresh PlayerTimer replaces whatever the map held
initializeTimer(tm, playerId, config) ==
  [tm EXCEPT !.timers =
     [id \in (DOMAIN tm.timers) \cup {playerId} |->
        IF id = playerId
        THEN [remainingTimeMs |-> config.initialTimeMs, isRunning |-> FALSE, lastStartTime |-> NoTime]
        ELSE tm.timers[id]]]

\* the guard every operation but resetTimer starts with
TimerFound(tm, playerId) == playerId \in DOMAIN tm.timers

\* a startTimer that starts over on a timer that is already running
startTimer_Restarts(tm, playerId, t) ==
  IF ~TimerFound(tm, playerId)
  THEN tm
  ELSE [tm EXCEPT !.timers[playerId].isRunning = TRUE,
                  !.timers[playerId].lastStartTime = t,
                  !.live[playerId] = @ + 1,
                  !.intervals = @ \cup {playerId}]

\* a startTimer that does not stamp the start
startTimer_NoStamp(tm, playerId, t) ==
  IF ~TimerFound(tm, playerId) \/ tm.timers[playerId].isRunning
  THEN tm
  ELSE [tm EXCEPT !.timers[playerId].isRunning = TRUE,
                  !.live[playerId] = @ + 1,
                  !.intervals = @ \cup {playerId}]

\* startTimer: no-op when running, else mark running, stamp the start and schedule the tick
startTimer(tm, playerId, t) ==
  IF ~TimerFound(tm, playerId) \/ tm.timers[playerId].isRunning
  THEN tm
  ELSE [tm EXCEPT !.timers[playerId].isRunning = TRUE,
                  !.timers[playerId].lastStartTime = t,
                  !.live[playerId] = @ + 1,
                  !.intervals = @ \cup {playerId}]

\* pauseTimer's effect on the manager
pauseTimer(tm, playerId) ==
  IF ~TimerFound(tm, playerId)
       \/ ~tm.timers[playerId].isRunning
       \/ tm.timers[playerId].lastStartTime = NoTime
  THEN tm
  ELSE [tm EXCEPT !.timers[playerId].isRunning = FALSE,
                  !.timers[playerId].lastStartTime = Stale,
                  !.timers[playerId].remainingTimeMs = Max(0, @),
                  !.live[playerId] = IF playerId \in tm.intervals THEN @ - 1 ELSE @,
                  !.intervals = @ \ {playerId}]

\* pauseTimer's return value: the time used since the start, 0 when not running
pauseTimerUsed(tm, playerId, t) ==
  IF ~TimerFound(tm, playerId)
       \/ ~tm.timers[playerId].isRunning
       \/ tm.timers[playerId].lastStartTime = NoTime
  THEN 0
  ELSE t - tm.timers[playerId].lastStartTime

getRemainingTime(tm, playerId, t) ==
  LET timer == tm.timers[playerId] IN
  IF timer.isRunning /\ timer.lastStartTime # NoTime
  THEN Max(0, timer.remainingTimeMs - (t - timer.lastStartTime))
  ELSE timer.remainingTimeMs

isTimeExpired(tm, playerId, t) == getRemainingTime(tm, playerId, t) <= 0

\* addIncrement uses the type and initial time the manager was constructed with
addIncrement(tm, playerId, incrementMs) ==
  IF tm.timerConfig.type = FISCHER
  THEN [tm EXCEPT !.timers[playerId].remainingTimeMs = @ + incrementMs]
  ELSE IF tm.timerConfig.type = BRONSTEIN
  THEN [tm EXCEPT !.timers[playerId].remainingTimeMs =
                     Min(@ + incrementMs, tm.timerConfig.initialTimeMs)]
  ELSE tm

\* resetTimer: creates the timer when the id has none, else stops it and sets its time
resetTimer(tm, playerId, timeMs) ==
  IF ~TimerFound(tm, playerId)
  THEN [tm EXCEPT !.timers =
          [id \in (DOMAIN tm.timers) \cup {playerId} |->
             IF id = playerId
             THEN [remainingTimeMs |-> timeMs, isRunning |-> FALSE, lastStartTime |-> NoTime]
             ELSE tm.timers[id]]]
  ELSE [pauseTimer(tm, playerId) EXCEPT !.timers[playerId].remainingTimeMs = timeMs,
                                        !.timers[playerId].isRunning = FALSE]

\* a callback that only counts down
intervalCallback_NoAutoPause(tm, playerId) ==
  IF TimerFound(tm, playerId) /\ tm.timers[playerId].isRunning
  THEN [tm EXCEPT !.timers[playerId].remainingTimeMs = @ - TickMs]
  ELSE tm

\* one run of the setInterval callback startTimer schedules
intervalCallback(tm, playerId) ==
  IF TimerFound(tm, playerId) /\ tm.timers[playerId].isRunning
  THEN LET dec == [tm EXCEPT !.timers[playerId].remainingTimeMs = @ - TickMs] IN
       IF dec.timers[playerId].remainingTimeMs <= 0
       THEN pauseTimer([dec EXCEPT !.timers[playerId].remainingTimeMs = 0], playerId)
       ELSE dec
  ELSE tm

RECURSIVE fireIntervals(_, _, _)
\* the callbacks of the n live intervals of one player, all due in the same period
fireIntervals(tm, playerId, n) ==
  IF n = 0 THEN tm ELSE fireIntervals(intervalCallback(tm, playerId), playerId, n - 1)

\* 100 ms of wall-clock time pass and every live interval fires once
Tick ==
  /\ now < MaxTicks * TickMs
  /\ now' = now + TickMs
  /\ timerManager' =
       LET afterWhite == fireIntervals(timerManager, PlayerId(WHITE), timerManager.live[PlayerId(WHITE)])
       IN fireIntervals(afterWhite, PlayerId(BLACK), afterWhite.live[PlayerId(BLACK)])
  /\ lastCall' = None
  /\ timerCall' = NoCall
  /\ UNCHANGED <<configuration, requestError, failuresSinceMove, gamesStarted, server, moveRequest>>
  /\ UNCHANGED <<orchestratorVars, loopVars, retryCount, capabilities, currentPlayerColor,
                 gameManager, rejectedLog>>

(* --------------------------- ChessGameManager ------------------------- *)

\* what chess.js reports of a position reached by a legal move: the set of
\* its predicates that hold (inCheck, isCheckmate, isStalemate,
\* isInsufficientMaterial, isThreefoldRepetition, halfmove clock >= 100)
PositionKinds ==
  { {}, {"check"}, {"check", "checkmate"}, {"stalemate"}, {"insufficient"},
    {"threefold"}, {"fifty"}, {"threefold", "fifty"} }

\* chess.isDraw()
chessIsDraw(flags) == flags \cap {"stalemate", "insufficient", "threefold", "fifty"} # {}

\* chess.isGameOver()
chessIsGameOver(flags) == "checkmate" \in flags \/ chessIsDraw(flags)

\* chess.turn()
chessTurn(gm) == IF gm.plies % 2 = 0 THEN WHITE ELSE BLACK

\* chess.moves({verbose: true}) of the current position
chessMoves(gm) ==
  IF chessIsGameOver(gm.flags) THEN {}
  ELSE IF chessTurn(gm) = WHITE
       THEN { [from |-> "e2", to |-> "e4", promotion |-> ""] }
       ELSE { [from |-> "e7", to |-> "e5", promotion |-> ""] }

validateMove(gm, move) ==
  \E m \in chessMoves(gm) :
     /\ m.from = move.from
     /\ m.to = move.to
     /\ (move.promotion = "" \/ m.promotion = move.promotion)

updateGameStatus(flags) ==
  IF "checkmate" \in flags THEN CHECKMATE
  ELSE IF "stalemate" \in flags THEN STALEMATE
  ELSE IF chessIsDraw(flags) THEN DRAW
  ELSE IF "check" \in flags THEN CHECK
  ELSE IN_PROGRESS

isGameComplete(gm) == chessIsGameOver(gm.flags)

\* the positions a legal move can lead to: the game is over after MaxPlies moves at the latest
NextPositionKinds(gm) ==
  IF gm.plies + 1 >= MaxPlies THEN { k \in PositionKinds : chessIsGameOver(k) } ELSE PositionKinds

\* makeMove on a move that validateMove accepts, leading to a position of kind k
makeMove(gm, move, k) ==
  [gm EXCEPT !.plies = @ + 1,
             !.flags = k,
             !.moveHistory = Append(@, [color |-> chessTurn(gm), notation |-> MoveStr(move)]),
             !.gameStatus = updateGameStatus(k)]

initializeGame(gm) ==
  [plies |-> 0, flags |-> {}, moveHistory |-> <<>>, gameStatus |-> IN_PROGRESS]

(* --------------------------- GameOrchestrator ------------------------- *)

\* the part of a GameConfiguration that belongs to the participant of one colour
PlayerConfig(config, color) == IF color = WHITE THEN config.whitePlayer ELSE config.blackPlayer

\* the statements of startGame that can throw before the status is set
StartFailures == {"initializeGame", "initializeTimer(white)", "initializeTimer(black)"}

\* no statement of startGame throws
NoFailure == "none"

\* the timers after the initializeTimer calls of startGame that were completed
initializeTimers(tm, config, failure) ==
  LET white == initializeTimer(tm, PlayerId(WHITE),
                               [initialTimeMs |-> config.whitePlayer.initialTimeMs])
  IN IF failure \in {"initializeGame", "initializeTimer(white)"} THEN tm
     ELSE IF failure = "initializeTimer(black)" THEN white
     ELSE initializeTimer(white, PlayerId(BLACK),
                          [initialTimeMs |-> config.blackPlayer.initialTimeMs])

\* startGame from its first statement to the first of: the statement that throws
\* (failure) and the catch block, the await of saveConfiguration, its return
startGameRuns(failure) ==
  /\ gameManager' = IF failure = "initializeGame" THEN gameManager
                    ELSE initializeGame(gameManager)
  /\ timerManager' = initializeTimers(timerManager, configuration, failure)
  /\ gameStatus' = IF failure = NoFailure THEN IN_PROGRESS ELSE NOT_STARTED
  /\ pc' = IF failure # NoFailure THEN "startFailed"
           ELSE IF configuration.saveGame THEN "saving"
           ELSE "head"
  /\ gamesStarted' = gamesStarted + 1
  /\ UNCHANGED <<timerCall, server, moveRequest>>
  /\ lastCall' = None
  /\ UNCHANGED <<configuration, requestError, failuresSinceMove>>
  /\ UNCHANGED <<isPaused, moveCount, invalidMoveAttempts, lastInvalidMoveReason, retryCount,
                 capabilities, currentPlayerColor, now, attemptCount, sleepMs, gameContext,
                 rejectedLog>>

\* startGame(configuration) on a fresh orchestrator, with the statement that throws, if any
StartGameOutcome(failure) ==
  /\ gameStatus = NOT_STARTED
  /\ pc = "idle"
  /\ startGameRuns(failure)
  /\ UNCHANGED <<result, lastError, lastResolution>>

\* startGame(configuration) on a fresh orchestrator, no statement of which throws
StartGame == StartGameOutcome(NoFailure)

\* the promise of stateManager.saveConfiguration settles: startGame returns, or its
\* catch block resets the status and rethrows
SaveConfigurationSettles(saved) ==
  /\ pc = "saving"
  /\ pc' = IF saved THEN "head" ELSE "startFailed"
  /\ gameStatus' = IF saved THEN gameStatus ELSE NOT_STARTED
  /\ lastCall' = None
  /\ UNCHANGED <<configuration, requestError, failuresSinceMove, gamesStarted, timerCall, server, moveRequest>>
  /\ UNCHANGED <<isPaused, moveCount, invalidMoveAttempts, lastInvalidMoveReason, retryCount,
                 capabilities, currentPlayerColor, timerManager, now, gameManager, attemptCount,
                 sleepMs, gameContext, result, lastError, lastResolution, rejectedLog>>

\* startGame(configuration) on an orchestrator whose last startGame failed or whose
\* game loop has returned; the history of the loop's failures starts afresh
RestartGame(failure) ==
  /\ pc \in {"startFailed", "done"}
  /\ gamesStarted < MaxGames
  /\ startGameRuns(failure)
  /\ result' = NoResult
  /\ lastError' = NoError
  /\ lastResolution' = None

\* a pauseGame that does not look at the status
pauseGameApplies_AnyStatus(status) == TRUE

\* the status test that guards pauseGame
pauseGameApplies(status) == status = IN_PROGRESS

\* a resumeGame that never takes effect
resumeGameApplies_Never(status) == FALSE

\* the status test that guards resumeGame
resumeGameApplies(status) == status = PAUSED

\* the timers after pauseGame's loop over getAllPlayers()
pauseAllTimers(tm) == pauseTimer(pauseTimer(tm, PlayerId(WHITE)), PlayerId(BLACK))

\* a resumeGame that started the timers of both players
resumeTimers_Everyone(tm, current, t) ==
  startTimer(startTimer(tm, PlayerId(current), t), PlayerId(Opponent(current)), t)

\* a resumeGame that started the timer of the player who is not to move
resumeTimers_Opponent(tm, current, t) == startTimer(tm, PlayerId(Opponent(current)), t)

\* the timers after resumeGame: only the current player's is started
resumeTimers(tm, current, t) == startTimer(tm, PlayerId(current), t)

\* an external call of pauseGame()
PauseGame ==
  /\ lastCall' = "pauseGame"
  /\ UNCHANGED <<configuration, requestError, failuresSinceMove, gamesStarted, timerCall, server, moveRequest>>
  /\ IF pauseGameApplies(gameStatus)
     THEN /\ isPaused' = TRUE
          /\ gameStatus' = PAUSED
          /\ timerManager' = pauseAllTimers(timerManager)
     ELSE UNCHANGED <<isPaused, gameStatus, timerManager>>
  /\ UNCHANGED <<moveCount, invalidMoveAttempts, lastInvalidMoveReason, retryCount, capabilities,
                 currentPlayerColor, now, gameManager, loopVars, rejectedLog>>

\* an external call of resumeGame()
ResumeGame ==
  /\ lastCall' = "resumeGame"
  /\ UNCHANGED <<configuration, requestError, failuresSinceMove, gamesStarted, timerCall, server, moveRequest>>
  /\ IF resumeGameApplies(gameStatus)
     THEN /\ isPaused' = FALSE
          /\ gameStatus' = IN_PROGRESS
          /\ timerManager' = resumeTimers(timerManager, currentPlayerColor, now)
     ELSE UNCHANGED <<isPaused, gameStatus, timerManager>>
  /\ UNCHANGED <<moveCount, invalidMoveAttempts, lastInvalidMoveReason, retryCount, capabilities,
                 currentPlayerColor, now, gameManager, loopVars, rejectedLog>>

(* ------------------------- failures and results ----------------------- *)

\* new TimeoutError(currentPlayer.id, currentPlayer.color)
TimeoutError(color) ==
  [type |-> "TimeoutError", message |-> {}, move |-> None, playerColor |-> color]

\* new InvalidMoveError(moveResult.error, move)
InvalidMoveError(move) ==
  [type |-> "InvalidMoveError", message |-> {}, move |-> MoveStr(move), playerColor |-> None]

\* any other Error, with the message it carries
PlainError(message) ==
  [type |-> "Error", message |-> message, move |-> None, playerColor |-> None]

\* a threshold one too low: the second rejection of a move string forfeits
invalidMoveResolution_OneEarly(newCount) == IF newCount >= maxRetries - 1 THEN FORFEIT ELSE RETRY

\* handleError's decision on the n-th rejection of one move string
invalidMoveResolution(newCount) == IF newCount >= maxRetries THEN FORFEIT ELSE RETRY

\* handleError's decision after incrementRetryCount()
retryCountResolution(count) == IF count < maxRetries THEN RETRY ELSE FORFEIT

\* a ledger keyed by player only: every rejection counts against every move string
recordInvalidMove_PerPlayer(attempts, player, moveStr) ==
  [attempts EXCEPT ![PlayerId(player)] = [m \in MoveStrs |-> @[m] + 1]]

\* the ledger after one more rejection of moveStr by player
recordInvalidMove(attempts, player, moveStr) ==
  [attempts EXCEPT ![PlayerId(player)][moveStr] = @ + 1]

\* handleError(error, player): the resolution and the fields it writes
handleError(error, player) ==
  IF error.type = "TimeoutError"
  THEN [resolution |-> END_GAME, gameStatus |-> TIMEOUT,
        invalidMoveAttempts |-> invalidMoveAttempts,
        lastInvalidMoveReason |-> lastInvalidMoveReason, retryCount |-> retryCount]
  ELSE IF error.type = "InvalidMoveError"
  THEN LET attempts == recordInvalidMove(invalidMoveAttempts, player, error.move)
           newCount == attempts[PlayerId(player)][error.move]
       IN [resolution |-> invalidMoveResolution(newCount), gameStatus |-> gameStatus,
           invalidMoveAttempts |-> attempts,
           lastInvalidMoveReason |->
             [lastInvalidMoveReason EXCEPT ![PlayerId(player)] =
                [move |-> error.move, attempt |-> newCount]],
           retryCount |-> retryCount]
  ELSE \* messages with 'parse' or 'JSON', and every other error, take the same branch
       LET count == retryCount[player] + 1
       IN [resolution |-> retryCountResolution(count), gameStatus |-> gameStatus,
           invalidMoveAttempts |-> invalidMoveAttempts,
           lastInvalidMoveReason |-> lastInvalidMoveReason,
           retryCount |-> [retryCount EXCEPT ![player] = count]]

createResult(type, gm, reason) ==
  [result |-> type,
   winner |-> IF type = "win" THEN Opponent(chessTurn(gm)) ELSE None,
   reason |-> IF type = "win" THEN "Checkmate"
              ELSE IF reason = "stalemate" THEN "Stalemate - No legal moves available"
              ELSE IF reason = "threefold_repetition" THEN "Threefold Repetition - Same position occurred 3 times"
              ELSE IF reason = "fifty_move_rule" THEN "Fifty-Move Rule - 50 moves without pawn move or capture"
              ELSE IF reason = "insufficient_material" THEN "Insufficient Material - Neither side can checkmate"
              ELSE IF reason = "agreement" THEN "Draw by Agreement - Both players agreed to draw"
              ELSE IF gm.gameStatus = STALEMATE THEN "Stalemate"
              ELSE "Draw",
   drawReason |-> IF type = "win" THEN None
                  ELSE IF reason = None /\ gm.gameStatus = STALEMATE THEN "stalemate"
                  ELSE reason,
   moveCount |-> moveCount]

createErrorResult(error, count) ==
  IF error.type = "TimeoutError"
  THEN [result |-> "timeout", winner |-> Opponent(error.playerColor),
        reason |-> error.playerColor \o " ran out of time", drawReason |-> None,
        moveCount |-> count]
  ELSE [result |-> "draw", winner |-> None, reason |-> "Game ended due to error",
        drawReason |-> None, moveCount |-> count]

\* a forfeit result that names the forfeiting colour as the winner
createForfeitResult_ForfeiterWins(forfeitingColor, reason, count) ==
  [result |-> "forfeit", winner |-> forfeitingColor,
   reason |-> forfeitingColor \o " forfeited: " \o reason, drawReason |-> None,
   moveCount |-> count]

createForfeitResult(forfeitingColor, reason, count) ==
  [result |-> "forfeit", winner |-> Opponent(forfeitingColor),
   reason |-> forfeitingColor \o " forfeited: " \o reason, drawReason |-> None,
   moveCount |-> count]

\* how the question put to the forfeiting player ends: askLLM resolves with a text,
\* resolves with an empty text, or rejects
AskOutcomes == {"answered", "empty", "failed"}

\* the player object has no askLLM method
Unavailable == "unavailable"

\* the text askLLM resolved with
AnswerText(outcome) == IF outcome = "answered" THEN "explanation" ELSE ""

ForfeitDefaultWithMoves == "Attempted invalid moves: <moves>. Unable to continue playing."

ForfeitDefault == "Unable to continue playing due to repeated invalid moves"

\* askForfeitReason's text: it names the attempted moves whenever the ledger has any
\* and falls back to a default when there is no answer
askForfeitReason(attempts, player, outcome) ==
  LET invalidMoves == { m \in MoveStrs : attempts[PlayerId(player)][m] > 0 } IN
  IF outcome \in {"answered", "empty"}
  THEN IF invalidMoves # {}
       THEN "Attempted invalid moves: <moves>. " \o AnswerText(outcome)
       ELSE IF AnswerText(outcome) # "" THEN AnswerText(outcome) ELSE ForfeitDefault
  ELSE IF invalidMoves # {} THEN ForfeitDefaultWithMoves ELSE ForfeitDefault

\* new Chess(fen): what chess.js reports of a position rebuilt from its FEN. The FEN
\* carries the placement, the side to move and the halfmove clock, but none of the
\* earlier positions: the rebuilt game has seen its position once
chessFromFen(flags) == flags \ {"threefold"}

\* detectDrawReason asks a Chess rebuilt from the FEN of the current position
detectDrawReason(gm) ==
  LET chess == chessFromFen(gm.flags) IN
  IF "stalemate" \in chess THEN "stalemate"
  ELSE IF "insufficient" \in chess THEN "insufficient_material"
  ELSE IF "threefold" \in chess THEN "threefold_repetition"
  ELSE IF "fifty" \in chess THEN "fifty_move_rule"
  ELSE None

\* a push onto a copy of the move history: the rules engine's own history is not changed
pushForfeit_OntoCopy(gm, player) == gm

\* the synthetic entry the loop pushes onto the move history on a forfeit
pushForfeit(gm, player) ==
  [gm EXCEPT !.moveHistory = Append(@, [color |-> player, notation |-> "forfeit"])]

\* a processTurn that leaves the feedback it has put into the context in the map
deliverFeedback_Kept(feedback, current) == feedback

\* lastInvalidMoveReason after processTurn has put current's entry into the context
deliverFeedback(feedback, current) == [feedback EXCEPT ![PlayerId(current)] = NoFeedback]

\* the top of the while loop of processGameLoop, up to the point where it is
\* suspended next: the loop ends, sleeps because the game is paused, or starts the
\* turn of player current (processTurn up to its first requestMove). status, paused,
\* tm, gm and feedback are the orchestrator's status and paused flag, the timers, the
\* rules engine and lastInvalidMoveReason as the code before the loop top left them.
LoopTop(status, paused, current, tm, gm, feedback) ==
  /\ attemptCount' = 0
  /\ IF isGameComplete(gm) \/ status \notin {IN_PROGRESS, PAUSED}
     THEN /\ result' = createResult(IF gm.gameStatus = CHECKMATE THEN "win" ELSE "draw", gm, None)
          /\ pc' = "done"
          /\ sleepMs' = 0
          /\ timerManager' = tm
          /\ gameContext' = NoContext
          /\ lastInvalidMoveReason' = feedback
     ELSE IF paused
     THEN /\ result' = result
          /\ pc' = "pausedSleep"
          /\ sleepMs' = 1000
          /\ timerManager' = tm
          /\ gameContext' = NoContext
          /\ lastInvalidMoveReason' = feedback
     ELSE /\ result' = result
          /\ pc' = "requesting"
          /\ sleepMs' = 0
          /\ timerManager' = startTimer(tm, PlayerId(current), now)
          /\ gameContext' = [player |-> current,
                             invalidMoveFeedback |-> feedback[PlayerId(current)]]
          /\ lastInvalidMoveReason' = deliverFeedback(feedback, current)

\* the catch block of processGameLoop: error was thrown during player's turn,
\* with the timers tm, the rules engine gm and the rejection history log at that
\* point; on RETRY (and PAUSE_GAME) the loop continues at its top
CatchError(error, player, tm, gm, log) ==
  LET h == handleError(error, player) IN
  /\ lastError' = [type |-> error.type, player |-> player, move |-> error.move]
  /\ lastResolution' = h.resolution
  /\ invalidMoveAttempts' = h.invalidMoveAttempts
  /\ retryCount' = h.retryCount
  /\ rejectedLog' = log
  /\ failuresSinceMove' =
       LET base == IF gm.plies # gameManager.plies
                   THEN [failuresSinceMove EXCEPT ![player] = 0]
                   ELSE failuresSinceMove
       IN IF error.type = "Error" THEN [base EXCEPT ![player] = @ + 1] ELSE base
  /\ UNCHANGED <<moveCount, currentPlayerColor>>
  /\ CASE h.resolution = END_GAME ->
            /\ result' = createErrorResult(error, moveCount)
            /\ pc' = "done"
            /\ sleepMs' = 0
            /\ attemptCount' = 0
            /\ gameContext' = NoContext
            /\ lastInvalidMoveReason' = h.lastInvalidMoveReason
            /\ gameStatus' = h.gameStatus
            /\ isPaused' = isPaused
            /\ timerManager' = tm
            /\ gameManager' = gm
       [] h.resolution = FORFEIT /\ capabilities.askLLM ->
            /\ result' = result
            /\ pc' = "askForfeit"
            /\ sleepMs' = 0
            /\ attemptCount' = 0
            /\ gameContext' = NoContext
            /\ lastInvalidMoveReason' = h.lastInvalidMoveReason
            /\ gameStatus' = h.gameStatus
            /\ isPaused' = isPaused
            /\ timerManager' = tm
            /\ gameManager' = gm
       [] h.resolution = FORFEIT /\ ~capabilities.askLLM ->
            /\ result' = createForfeitResult(player,
                            askForfeitReason(h.invalidMoveAttempts, player, Unavailable),
                            moveCount)
            /\ pc' = "done"
            /\ sleepMs' = 0
            /\ attemptCount' = 0
            /\ gameContext' = NoContext
            /\ lastInvalidMoveReason' = h.lastInvalidMoveReason
            /\ gameStatus' = h.gameStatus
            /\ isPaused' = isPaused
            /\ timerManager' = tm
            /\ gameManager' = pushForfeit(gm, player)
       [] h.resolution = PAUSE_GAME ->
            /\ gameStatus' = IF pauseGameApplies(h.gameStatus) THEN PAUSED ELSE h.gameStatus
            /\ isPaused' = (pauseGameApplies(h.gameStatus) \/ isPaused)
            /\ gameManager' = gm
            /\ LoopTop(IF pauseGameApplies(h.gameStatus) THEN PAUSED ELSE h.gameStatus,
                       pauseGameApplies(h.gameStatus) \/ isPaused, currentPlayerColor,
                       IF pauseGameApplies(h.gameStatus) THEN pauseAllTimers(tm) ELSE tm,
                       gm, h.lastInvalidMoveReason)
       [] h.resolution = RETRY ->
            /\ gameStatus' = h.gameStatus
            /\ isPaused' = isPaused
            /\ gameManager' = gm
            /\ LoopTop(h.gameStatus, isPaused, currentPlayerColor, tm, gm,
                       h.lastInvalidMoveReason)

(* ------------------------------ game loop ----------------------------- *)

\* a wait that treats a rate limit like an API error
backoffMs_RateLimitAsApiError(message) ==
  IF Includes(message, "No JSON found") THEN NoJsonWaitMs
  ELSE IF message = {} THEN 0
  ELSE ApiErrorWaitMs

\* the wait before the next attempt of a failed move request, 0 when the error is not retried
backoffMs(message) ==
  IF Includes(message, "Rate limit") THEN RateLimitWaitMs
  ELSE IF Includes(message, "LLMApiError") \/ Includes(message, "Failed to parse move") THEN ApiErrorWaitMs
  ELSE IF Includes(message, "No JSON found") THEN NoJsonWaitMs
  ELSE 0

\* processGameLoop() is called on a started game and runs to its first suspension
LoopHead ==
  /\ pc = "head"
  /\ lastCall' = None
  /\ UNCHANGED <<configuration, requestError, failuresSinceMove, gamesStarted, timerCall, server, moveRequest>>
  /\ LoopTop(gameStatus, isPaused, currentPlayerColor, timerManager, gameManager,
             lastInvalidMoveReason)
  /\ UNCHANGED <<gameStatus, isPaused, moveCount, invalidMoveAttempts, retryCount, capabilities,
                 currentPlayerColor, now, gameManager, lastError, lastResolution, rejectedLog>>

\* sleep(1000) of a paused loop is over: continue at the loop top
WakeFromPause ==
  /\ pc = "pausedSleep"
  /\ lastCall' = None
  /\ UNCHANGED <<configuration, requestError, failuresSinceMove, gamesStarted, timerCall, server, moveRequest>>
  /\ LoopTop(gameStatus, isPaused, currentPlayerColor, timerManager, gameManager,
             lastInvalidMoveReason)
  /\ UNCHANGED <<gameStatus, isPaused, moveCount, invalidMoveAttempts, retryCount, capabilities,
                 currentPlayerColor, now, gameManager, lastError, lastResolution, rejectedLog>>

\* a successful iteration that also cleared the mover's ledger
ledgerAfterMove_Cleared(attempts, player) ==
  [attempts EXCEPT ![PlayerId(player)] = [m \in MoveStrs |-> 0]]

\* invalidMoveAttempts after a successful iteration: no statement of it writes the ledger
ledgerAfterMove(attempts, player) == attempts

\* the rest of a successful iteration: switchTurn, moveCount++, resetRetryCount, sleep(2000);
\* attemptCount keeps the value processTurn returned with until the next turn starts
AfterMove(player, tm, gm) ==
  /\ invalidMoveAttempts' = ledgerAfterMove(invalidMoveAttempts, player)
  /\ currentPlayerColor' = Opponent(currentPlayerColor)
  /\ moveCount' = moveCount + 1
  /\ retryCount' = [retryCount EXCEPT ![player] = 0]
  /\ failuresSinceMove' = [failuresSinceMove EXCEPT ![player] = 0]
  /\ pc' = "moveSleep"
  /\ sleepMs' = 2000
  /\ timerManager' = tm
  /\ gameManager' = gm
  /\ attemptCount' = attemptCount
  /\ gameContext' = NoContext
  /\ UNCHANGED <<gameStatus, isPaused, lastInvalidMoveReason, result,
                 lastError, lastResolution, rejectedLog>>

\* requestMove rejects with an error carrying message
RequestFails(message) ==
  /\ pc = "requesting"
  /\ lastCall' = None
  /\ UNCHANGED <<configuration, gamesStarted, timerCall, server, moveRequest>>
  /\ capabilities' = capabilities
  /\ now' = now
  /\ LET player == currentPlayerColor
         n == attemptCount + 1
     IN IF backoffMs(message) > 0 /\ n < maxAttempts
        THEN /\ attemptCount' = n
             /\ pc' = "backoff"
             /\ sleepMs' = backoffMs(message)
             /\ requestError' = <<message>>
             /\ failuresSinceMove' = failuresSinceMove
             /\ UNCHANGED <<orchestratorVars, retryCount, currentPlayerColor, timerManager,
                            gameManager, gameContext, result, lastError, lastResolution,
                            rejectedLog>>
        ELSE /\ requestError' = requestError
             /\ CatchError(PlainError(message), player,
                           pauseTimer(timerManager, PlayerId(player)), gameManager, rejectedLog)

\* the backoff sleep is over: requestMove is invoked again
BackoffDone ==
  /\ pc = "backoff"
  /\ pc' = "requesting"
  /\ sleepMs' = 0
  /\ lastCall' = None
  /\ UNCHANGED <<configuration, gamesStarted, timerCall, server, moveRequest>>
  /\ requestError' = <<>>
  /\ failuresSinceMove' = failuresSinceMove
  /\ UNCHANGED <<orchestratorVars, retryCount, capabilities, currentPlayerColor, timerManager, now,
                 gameManager, attemptCount, gameContext, result, lastError, lastResolution,
                 rejectedLog>>

\* requestMove resolves with no move at all
RequestReturnsNothing ==
  /\ pc = "requesting"
  /\ lastCall' = None
  /\ UNCHANGED <<configuration, requestError, gamesStarted, timerCall, server, moveRequest>>
  /\ capabilities' = capabilities
  /\ now' = now
  /\ CatchError(PlainError({}), currentPlayerColor,
                pauseTimer(timerManager, PlayerId(currentPlayerColor)), gameManager, rejectedLog)

\* handleDrawOffer begins with this.playerManager.getOpponent(...), a method that
\* neither IPlayerManager nor PlayerManager has: the call throws a TypeError, whose
\* message contains none of the substrings the code tests for
handleDrawOfferError == PlainError({})

\* requestMove resolves with move; a legal move leads to a position of kind k; a
\* draw offer carried by an applied move makes handleDrawOffer throw
RequestReturns(move, k) ==
  /\ pc = "requesting"
  /\ lastCall' = None
  /\ UNCHANGED <<configuration, requestError, gamesStarted, timerCall, server, moveRequest>>
  /\ capabilities' = capabilities
  /\ now' = now
  /\ LET player == currentPlayerColor
         tm1 == pauseTimer(timerManager, PlayerId(player))
     IN IF ~validateMove(gameManager, move)
        THEN CatchError(InvalidMoveError(move), player, tm1, gameManager,
                        [rejectedLog EXCEPT ![player] = Append(@, MoveStr(move))])
        ELSE LET gm1 == makeMove(gameManager, move, k) IN
             IF isTimeExpired(tm1, PlayerId(player), now)
             THEN CatchError(TimeoutError(player), player, tm1, gm1, rejectedLog)
             ELSE LET tm2 == addIncrement(tm1, PlayerId(player), LoopIncrementMs) IN
                  IF move.offerDraw
                  THEN CatchError(handleDrawOfferError, player, tm2, gm1, rejectedLog)
                  ELSE AfterMove(player, tm2, gm1)

\* sleep(2000) after a move is over: the loop reads the rules engine's status and
\* returns a Result or continues at the loop top
MoveSleepDone ==
  /\ pc = "moveSleep"
  /\ lastCall' = None
  /\ UNCHANGED <<configuration, requestError, failuresSinceMove, gamesStarted, timerCall, server, moveRequest>>
  /\ IF gameManager.gameStatus \in {CHECKMATE, STALEMATE, DRAW}
     THEN /\ result' =
               IF gameManager.gameStatus = CHECKMATE
               THEN createResult("win", gameManager, None)
               ELSE IF gameManager.gameStatus = STALEMATE
               THEN createResult("draw", gameManager, "stalemate")
               ELSE createResult("draw", gameManager, detectDrawReason(gameManager))
          /\ pc' = "done"
          /\ sleepMs' = 0
          /\ attemptCount' = 0
          /\ UNCHANGED <<timerManager, gameContext, lastInvalidMoveReason>>
     ELSE LoopTop(gameStatus, isPaused, currentPlayerColor, timerManager, gameManager,
                  lastInvalidMoveReason)
  /\ UNCHANGED <<gameStatus, isPaused, moveCount, invalidMoveAttempts, retryCount, capabilities,
                 currentPlayerColor, now, gameManager, lastError, lastResolution, rejectedLog>>

\* askLLM has settled with outcome: the forfeit entry is pushed and the result returned
ForfeitReasonReturns(outcome) ==
  /\ pc = "askForfeit"
  /\ lastCall' = None
  /\ UNCHANGED <<configuration, requestError, failuresSinceMove, gamesStarted, timerCall, server, moveRequest>>
  /\ gameManager' = pushForfeit(gameManager, currentPlayerColor)
  /\ result' = createForfeitResult(currentPlayerColor,
                  askForfeitReason(invalidMoveAttempts, currentPlayerColor, outcome), moveCount)
  /\ pc' = "done"
  /\ UNCHANGED <<orchestratorVars, retryCount, capabilities, currentPlayerColor, timerManager, now,
                 attemptCount, sleepMs, gameContext, lastError, lastResolution, rejectedLog>>

(* ---------------------------- specification --------------------------- *)

\* a GameConfiguration with the same allotment and increment for both participants
EvenConfiguration(type, initialTimeMs, incrementMs) ==
  [whitePlayer |-> [initialTimeMs |-> initialTimeMs, incrementMs |-> incrementMs],
   blackPlayer |-> [initialTimeMs |-> initialTimeMs, incrementMs |-> incrementMs],
   timerType |-> type, saveGame |-> FALSE]

\* the state after construction, for players with the optional methods caps and a
\* game configuration in configs; the timer manager is constructed from white's
\* part of the configuration and its timer type, as the CLI and the server do
InitWith(caps, configs) ==
  /\ gameStatus = NOT_STARTED
  /\ isPaused = FALSE
  /\ moveCount = 0
  /\ invalidMoveAttempts = [p \in PlayerColor |-> [m \in MoveStrs |-> 0]]
  /\ lastInvalidMoveReason = [p \in PlayerColor |-> NoFeedback]
  /\ retryCount = [p \in PlayerColor |-> 0]
  /\ capabilities \in caps
  /\ currentPlayerColor = WHITE
  /\ configuration \in configs
  /\ timerManager =
       [timers |-> <<>>, intervals |-> {}, live |-> [p \in PlayerColor |-> 0],
        timerConfig |-> [type |-> configuration.timerType,
                         initialTimeMs |-> configuration.whitePlayer.initialTimeMs]]
  /\ now = 0
  /\ gameManager = [plies |-> 0, flags |-> {}, moveHistory |-> <<>>, gameStatus |-> NOT_STARTED]
  /\ pc = "idle"
  /\ attemptCount = 0
  /\ sleepMs = 0
  /\ gameContext = NoContext
  /\ result = NoResult
  /\ lastError = NoError
  /\ lastResolution = None
  /\ rejectedLog = [p \in PlayerColor |-> <<>>]
  /\ lastCall = None
  /\ requestError = <<>>
  /\ failuresSinceMove = [p \in PlayerColor |-> 0]
  /\ gamesStarted = 0
  /\ timerCall = NoCall
  /\ server = ServerConstructed
  /\ moveRequest = NoRequest

\* the players of the application (LLMPlayerImpl has both optional methods) and a
\* Fischer game whose configured increment is the one the loop adds
Init ==
  InitWith({[askLLM |-> TRUE]},
           {EvenConfiguration(FISCHER, InitialTimeMs, LoopIncrementMs)})

\* the moves without promotion: one legal and one illegal move string for each side
PlainMoves == { m \in MoveResponses : m.promotion = "" }

\* a rate limit (retried after a wait) and an error processTurn does not retry
ClockMessages == { {"Rate limit"}, {} }

\* the positions a move leads to in the runs with the clock: play goes on, checkmate, a draw
ClockKinds == { {}, {"check", "checkmate"}, {"threefold"} }

\* the game loop together with the clock and external pause/resume calls
Next ==
  \/ StartGame
  \/ PauseGame
  \/ ResumeGame
  \/ Tick
  \/ LoopHead
  \/ WakeFromPause
  \/ \E message \in ClockMessages : RequestFails(message)
  \/ BackoffDone
  \/ RequestReturnsNothing
  \/ \E move \in PlainMoves, k \in ClockKinds :
        k \in NextPositionKinds(gameManager) /\ RequestReturns(move, k)
  \/ MoveSleepDone
  \/ ForfeitReasonReturns("answered")

Spec == Init /\ [][Next]_vars

\* the game loop alone, fed every move response and every kind of request failure
NextLedger ==
  \/ StartGame
  \/ LoopHead
  \/ \E message \in ErrorMessages : RequestFails(message)
  \/ BackoffDone
  \/ RequestReturnsNothing
  \/ \E move \in MoveResponses, k \in ClockKinds :
        k \in NextPositionKinds(gameManager) /\ RequestReturns(move, k)
  \/ MoveSleepDone
  \/ ForfeitReasonReturns("answered")

SpecLedger == Init /\ [][NextLedger]_vars

\* the steps the event loop takes by itself: a sleep that ends, the code after it
LoopStep ==
  LoopHead \/ WakeFromPause \/ BackoffDone \/ MoveSleepDone \/ ForfeitReasonReturns("answered")

\* the outstanding requestMove settles: it rejects, or resolves with or without a
\* move; the game is over after MaxLivePlies legal moves at the latest
RequestSettles ==
  \/ \E message \in ClockMessages : RequestFails(message)
  \/ RequestReturnsNothing
  \/ \E move \in PlainMoves, k \in ClockKinds :
        /\ k \in NextPositionKinds(gameManager)
        /\ gameManager.plies + 1 >= MaxLivePlies => chessIsGameOver(k)
        /\ RequestReturns(move, k)

\* a resumeGame call that finds the game paused
EffectiveResume == ResumeGame /\ resumeGameApplies(gameStatus)

\* timers of the event loop fire and pending promises settle; a paused game is resumed
Fairness ==
  /\ WF_vars(LoopStep)
  /\ WF_vars(RequestSettles)
  /\ WF_vars(EffectiveResume)

\* the game loop with external pause/resume calls and the first MaxLiveTicks clock ticks
NextLive ==
  \/ StartGame
  \/ PauseGame
  \/ ResumeGame
  \/ (now < MaxLiveTicks * TickMs /\ Tick)
  \/ LoopStep
  \/ RequestSettles

LiveSpec == Init /\ [][NextLive]_vars /\ Fairness

\* the increments a configuration may carry: the one the loop adds and another one
ConfiguredIncrements == {3000, LoopIncrementMs}

\* the configurations a game can be started with: each participant has its own
\* allotment and increment (the server takes them from the client's message)
ClockConfigurations ==
  { [whitePlayer |-> [initialTimeMs |-> wt, incrementMs |-> wi],
     blackPlayer |-> [initialTimeMs |-> bt, incrementMs |-> bi],
     timerType |-> type, saveGame |-> FALSE] :
      wt \in {InitialTimeMs, 2 * InitialTimeMs}, bt \in {InitialTimeMs, 2 * InitialTimeMs},
      wi \in ConfiguredIncrements, bi \in ConfiguredIncrements, type \in TimerType }

InitClock == InitWith({[askLLM |-> TRUE]}, ClockConfigurations)

\* games of legal moves under every configuration, with the clock and pause/resume
NextClock ==
  \/ StartGame
  \/ PauseGame
  \/ ResumeGame
  \/ Tick
  \/ LoopHead
  \/ WakeFromPause
  \/ \E move \in PlainMoves, k \in ClockKinds :
        /\ ~move.offerDraw
        /\ validateMove(gameManager, move)
        /\ gameManager.plies + 1 >= MaxClockPlies => chessIsGameOver(k)
        /\ RequestReturns(move, k)
  \/ MoveSleepDone

SpecClock == InitClock /\ [][NextClock]_vars

\* a provider that answers a move request with a rate limit or with a legal move
\* that offers no draw, with the clock and pause/resume
NextRateLimit ==
  \/ StartGame
  \/ PauseGame
  \/ ResumeGame
  \/ Tick
  \/ LoopHead
  \/ WakeFromPause
  \/ RequestFails({"Rate limit"})
  \/ BackoffDone
  \/ \E move \in PlainMoves, k \in ClockKinds :
        /\ ~move.offerDraw
        /\ validateMove(gameManager, move)
        /\ k \in NextPositionKinds(gameManager)
        /\ RequestReturns(move, k)
  \/ MoveSleepDone
  \/ ForfeitReasonReturns("answered")

SpecRateLimit == Init /\ [][NextRateLimit]_vars

\* a provider that answers a move request with any kind of failure or with a legal
\* move that offers no draw, with the clock and pause/resume
NextRetry ==
  \/ StartGame
  \/ PauseGame
  \/ ResumeGame
  \/ Tick
  \/ LoopHead
  \/ WakeFromPause
  \/ \E message \in ErrorMessages : RequestFails(message)
  \/ BackoffDone
  \/ \E move \in PlainMoves, k \in ClockKinds :
        /\ ~move.offerDraw
        /\ validateMove(gameManager, move)
        /\ k \in NextPositionKinds(gameManager)
        /\ RequestReturns(move, k)
  \/ MoveSleepDone
  \/ ForfeitReasonReturns("answered")

SpecRetry == Init /\ [][NextRetry]_vars

\* players with and without the askLLM method
InitResult ==
  InitWith({[askLLM |-> TRUE], [askLLM |-> FALSE]},
           {EvenConfiguration(FISCHER, InitialTimeMs, LoopIncrementMs)})

\* the game loop with the clock, fed every kind of request failure, and every way
\* the question put to a forfeiting player can end
NextResult ==
  \/ StartGame
  \/ Tick
  \/ LoopHead
  \/ \E message \in ErrorMessages : RequestFails(message)
  \/ BackoffDone
  \/ RequestReturnsNothing
  \/ \E move \in PlainMoves, k \in ClockKinds :
        k \in NextPositionKinds(gameManager) /\ RequestReturns(move, k)
  \/ MoveSleepDone
  \/ \E outcome \in AskOutcomes : ForfeitReasonReturns(outcome)

SpecResult == InitResult /\ [][NextResult]_vars

\* the configurations of the runs that follow startGame: the allotments of the two
\* participants differ, the configuration is saved at the start or not
StartConfigurations ==
  { [whitePlayer |-> [initialTimeMs |-> InitialTimeMs, incrementMs |-> LoopIncrementMs],
     blackPlayer |-> [initialTimeMs |-> 2 * InitialTimeMs, incrementMs |-> LoopIncrementMs],
     timerType |-> FISCHER, saveGame |-> save] : save \in BOOLEAN }

InitStart == InitWith({[askLLM |-> TRUE]}, StartConfigurations)

\* the moves that carry no draw offer
QuietMoves == { m \in PlainMoves : ~m.offerDraw }

\* startGame with every way it can fail, games of legal and rejected moves with
\* external pause/resume calls, and startGame on the orchestrator once more
NextStart ==
  \/ \E failure \in StartFailures \cup {NoFailure} : StartGameOutcome(failure)
  \/ \E saved \in BOOLEAN : SaveConfigurationSettles(saved)
  \/ \E failure \in StartFailures \cup {NoFailure} : RestartGame(failure)
  \/ PauseGame
  \/ ResumeGame
  \/ LoopHead
  \/ WakeFromPause
  \/ \E move \in QuietMoves, k \in ClockKinds :
        k \in NextPositionKinds(gameManager) /\ RequestReturns(move, k)
  \/ MoveSleepDone
  \/ ForfeitReasonReturns("answered")

SpecStart == InitStart /\ [][NextStart]_vars

(* ---- the timer manager called directly ------------------------------- *)

\* a missing timer that is passed over in silence
TimerNotFound_Swallowed(op, playerId) ==
  [op |-> op, playerId |-> playerId, threw |-> FALSE, value |-> 0, expired |-> FALSE]

\* the outcome of a GameTimerManager method that threw 'Timer not found'
TimerNotFound(op, playerId) ==
  [op |-> op, playerId |-> playerId, threw |-> TRUE, value |-> 0, expired |-> FALSE]

\* the outcome of a GameTimerManager method that returned (value: the number it
\* returned, 0 for void; expired: the boolean isTimeExpired returned)
Returned(op, playerId, value, expired) ==
  [op |-> op, playerId |-> playerId, threw |-> FALSE, value |-> value, expired |-> expired]

\* a caller invokes one method of the timer manager: tm is the manager it leaves
TimerMethodCalled(tm, outcome) ==
  /\ timerManager' = tm
  /\ timerCall' = outcome
  /\ lastCall' = None
  /\ UNCHANGED <<configuration, requestError, failuresSinceMove, gamesStarted, server, moveRequest>>
  /\ UNCHANGED <<orchestratorVars, loopVars, retryCount, capabilities, currentPlayerColor,
                 gameManager, rejectedLog, now>>

InitializeTimerCalled(playerId, config) ==
  TimerMethodCalled(initializeTimer(timerManager, playerId, config),
                    Returned("initializeTimer", playerId, 0, FALSE))

StartTimerCalled(playerId) ==
  /\ TimerFound(timerManager, playerId) /\ ~timerManager.timers[playerId].isRunning
        => timerManager.live[playerId] < MaxIntervals
  /\ IF TimerFound(timerManager, playerId)
     THEN TimerMethodCalled(startTimer(timerManager, playerId, now),
                            Returned("startTimer", playerId, 0, FALSE))
     ELSE TimerMethodCalled(timerManager, TimerNotFound("startTimer", playerId))

PauseTimerCalled(playerId) ==
  IF TimerFound(timerManager, playerId)
  THEN TimerMethodCalled(pauseTimer(timerManager, playerId),
                         Returned("pauseTimer", playerId,
                                  pauseTimerUsed(timerManager, playerId, now), FALSE))
  ELSE TimerMethodCalled(timerManager, TimerNotFound("pauseTimer", playerId))

GetRemainingTimeCalled(playerId) ==
  IF TimerFound(timerManager, playerId)
  THEN TimerMethodCalled(timerManager,
                         Returned("getRemainingTime", playerId,
                                  getRemainingTime(timerManager, playerId, now), FALSE))
  ELSE TimerMethodCalled(timerManager, TimerNotFound("getRemainingTime", playerId))

AddIncrementCalled(playerId, incrementMs) ==
  /\ TimerFound(timerManager, playerId)
        => timerManager.timers[playerId].remainingTimeMs < TimerAllotmentMs
  /\ IF TimerFound(timerManager, playerId)
     THEN TimerMethodCalled(addIncrement(timerManager, playerId, incrementMs),
                            Returned("addIncrement", playerId, 0, FALSE))
     ELSE TimerMethodCalled(timerManager, TimerNotFound("addIncrement", playerId))

IsTimeExpiredCalled(playerId) ==
  IF TimerFound(timerManager, playerId)
  THEN TimerMethodCalled(timerManager,
                         Returned("isTimeExpired", playerId, 0,
                                  isTimeExpired(timerManager, playerId, now)))
  ELSE TimerMethodCalled(timerManager, TimerNotFound("isTimeExpired", playerId))

ResetTimerCalled(playerId, timeMs) ==
  TimerMethodCalled(resetTimer(timerManager, playerId, timeMs),
                    Returned("resetTimer", playerId, 0, FALSE))

\* a timer manager constructed with the allotment TimerAllotmentMs and the timer
\* type that adds every increment
InitTimer ==
  InitWith({[askLLM |-> TRUE]}, {EvenConfiguration(FISCHER, TimerAllotmentMs, LoopIncrementMs)})

\* the methods of one GameTimerManager called in any order on the ids of the two
\* participants, and its tick callbacks
NextTimer ==
  \/ \E playerId \in PlayerColor :
        InitializeTimerCalled(playerId, [initialTimeMs |-> TimerAllotmentMs])
  \/ \E playerId \in PlayerColor : StartTimerCalled(playerId)
  \/ \E playerId \in PlayerColor : PauseTimerCalled(playerId)
  \/ \E playerId \in PlayerColor : GetRemainingTimeCalled(playerId)
  \/ \E playerId \in PlayerColor : AddIncrementCalled(playerId, TickMs)
  \/ \E playerId \in PlayerColor : IsTimeExpiredCalled(playerId)
  \/ \E playerId \in PlayerColor : ResetTimerCalled(playerId, InitialTimeMs)
  \/ Tick

SpecTimer == InitTimer /\ [][NextTimer]_vars

(* ---- GameWebSocketServer ---------------------------------------------- *)

\* The server creates a new GameOrchestrator for every game it starts; the
\* orchestrator of the i-th 'game:start' event is called i here (0: undefined).
\* Of an orchestrator the server only uses that startGame resolves or rejects and
\* that processGameLoop settles at some time. A 'game:start' handler is at one of:
\*   "unused"     the event has not arrived
\*   "rejected"   it emitted GAME_IN_PROGRESS and returned
\*   "preparing"  in the private startGame, at an await before the orchestrator is created
\*   "starting"   awaiting orchestrator.startGame
\*   "failed"     the private startGame threw and the handler emitted game:error
\*   "scheduled"  it returned; the timeout that will call processGameLoop is pending
\*   "looping"    the timeout callback awaits processGameLoop of orchestrator loopOn
\*   "ended"      the timeout callback is over

\* one step of the server: it leaves the server fields srv
ServerStep(srv) ==
  /\ server' = srv
  /\ lastCall' = None
  /\ UNCHANGED <<configuration, requestError, failuresSinceMove, gamesStarted, timerCall, moveRequest>>
  /\ UNCHANGED <<orchestratorVars, loopVars, retryCount, capabilities, currentPlayerColor,
                 timerManager, now, gameManager, rejectedLog>>

\* socket.on('game:start'): the i-th event arrives; the handler tests gameInProgress
\* and either rejects the event or enters the private startGame, which suspends at
\* its first await
GameStartEvent(i) ==
  /\ server.handlers[i].pc = "unused"
  /\ \A j \in 1..(i - 1) : server.handlers[j].pc # "unused"
  /\ ServerStep([server EXCEPT !.handlers[i].pc =
                    IF server.gameInProgress THEN "rejected" ELSE "preparing"])

\* the awaits before the orchestrator is created are over: either something threw
\* (no API key, createPlayer rejected), or the handler creates the orchestrator,
\* sets gameInProgress and calls orchestrator.startGame
PreparationSettles(i, ok) ==
  /\ server.handlers[i].pc = "preparing"
  /\ ServerStep(IF ok
                THEN [server EXCEPT !.orchestrator = i,
                                    !.gameInProgress = TRUE,
                                    !.handlers[i].pc = "starting"]
                ELSE [server EXCEPT !.handlers[i].pc = "failed"])

\* orchestrator.startGame settles: resolved, the handler emits game:started and
\* sets the timeout; rejected, the handler emits game:error
OrchestratorStartSettles(i, ok) ==
  /\ server.handlers[i].pc = "starting"
  /\ ServerStep([server EXCEPT !.handlers[i].pc = IF ok THEN "scheduled" ELSE "failed"])

\* the timeout callback runs: it calls processGameLoop of this.orchestrator, which
\* throws a TypeError when a reset has made the field undefined
TimeoutFires(i) ==
  /\ server.handlers[i].pc = "scheduled"
  /\ ServerStep(IF server.orchestrator = 0
                THEN [server EXCEPT !.gameInProgress = FALSE,
                                    !.handlers[i].pc = "ended"]
                ELSE [server EXCEPT !.handlers[i].pc = "looping",
                                    !.handlers[i].loopOn = server.orchestrator])

\* processGameLoop returns a Result or throws: both branches of the callback
\* clear gameInProgress
GameLoopSettles(i) ==
  /\ server.handlers[i].pc = "looping"
  /\ ServerStep([server EXCEPT !.gameInProgress = FALSE,
                               !.handlers[i].pc = "ended",
                               !.handlers[i].loopOn = 0])

\* socket.on('game:reset')
GameResetEvent ==
  ServerStep([server EXCEPT !.gameInProgress = FALSE, !.orchestrator = 0])

\* the events and continuations of the server in any order
NextServer ==
  \/ \E i \in 1..MaxServerStarts : GameStartEvent(i)
  \/ \E i \in 1..MaxServerStarts, ok \in BOOLEAN : PreparationSettles(i, ok)
  \/ \E i \in 1..MaxServerStarts, ok \in BOOLEAN : OrchestratorStartSettles(i, ok)
  \/ \E i \in 1..MaxServerStarts : TimeoutFires(i)
  \/ \E i \in 1..MaxServerStarts : GameLoopSettles(i)
  \/ GameResetEvent

SpecServer == Init /\ [][NextServer]_vars

(* ---- LLMPlayerImpl.requestMove ----------------------------------------- *)

\* A response text is represented by what parseMove reads of it: whether it holds
\* a {...} group (json: "absent" if not, "malformed" if JSON.parse rejects the
\* group, "object" otherwise) and the from, to, promotion and offerDraw
\* properties of the object ("" for a missing string property).
TextObject(from, to, offerDraw) ==
  [json |-> "object", from |-> from, to |-> to, promotion |-> "", offerDraw |-> offerDraw]

\* the response texts followed: prose, a malformed group, well-formed moves in
\* lower and upper case, a move written into "from" alone, objects lacking a property
ResponseTexts ==
  { [json |-> "absent", from |-> "", to |-> "", promotion |-> "", offerDraw |-> FALSE],
    [json |-> "malformed", from |-> "", to |-> "", promotion |-> "", offerDraw |-> FALSE],
    TextObject("e2", "e4", FALSE), TextObject("e2", "e4", TRUE), TextObject("E2", "E4", FALSE),
    TextObject("e7", "e5", FALSE), TextObject("E2E4", "", FALSE),
    TextObject("e2", "", FALSE), TextObject("", "e4", FALSE) }

\* what apiClient.sendRequest does: it rejects with an LLMApiError (a rate limit,
\* or a message with none of the substrings the loop tests for) or resolves with a text
ApiOutcomes ==
  { [rejected |-> TRUE, message |-> m, text |-> NoText] : m \in {{"Rate limit"}, {}} } \cup
  { [rejected |-> FALSE, message |-> {}, text |-> t] : t \in ResponseTexts }

\* String.toLowerCase on the strings that occur
toLowerCase(s) ==
  IF s = "E2" THEN "e2" ELSE IF s = "E4" THEN "e4" ELSE IF s = "E2E4" THEN "e2e4" ELSE s

\* parseMove: the MoveResponse read from the text, or the Error it throws, whose
\* message begins with 'Failed to parse move' and ends with the inner message
parseMove(text) ==
  IF text.json = "absent"
  THEN [failed |-> TRUE, message |-> {"Failed to parse move", "parse", "No JSON found", "JSON"},
        move |-> NoMove]
  ELSE IF text.json = "malformed"
  THEN [failed |-> TRUE, message |-> {"Failed to parse move", "parse"}, move |-> NoMove]
  ELSE IF text.from # "" /\ text.to = "" /\ Len(text.from) = 4
  THEN [failed |-> FALSE, message |-> {},
        move |-> [from |-> toLowerCase(SubSeq(text.from, 1, 2)),
                  to |-> toLowerCase(SubSeq(text.from, 3, 4)),
                  promotion |-> toLowerCase(text.promotion),
                  offerDraw |-> text.offerDraw]]
  ELSE IF text.from = "" \/ text.to = ""
  THEN [failed |-> TRUE, message |-> {"Failed to parse move", "parse"}, move |-> NoMove]
  ELSE [failed |-> FALSE, message |-> {},
        move |-> [from |-> toLowerCase(text.from), to |-> toLowerCase(text.to),
                  promotion |-> toLowerCase(text.promotion), offerDraw |-> text.offerDraw]]

\* what the try block of requestMove ends with: the parsed move, or the failure
\* of the API call or of parseMove
requestMoveTry(api) ==
  IF api.rejected
  THEN [failed |-> TRUE, message |-> api.message, move |-> NoMove]
  ELSE parseMove(api.text)

\* the fallback of the catch block: the move string cut into from, to and promotion
fallbackMove(randomMove) ==
  [from |-> SubSeq(randomMove, 1, 2),
   to |-> SubSeq(randomMove, 3, 4),
   promotion |-> IF Len(randomMove) > 4 THEN SubSeq(randomMove, 5, Len(randomMove)) ELSE "",
   offerDraw |-> FALSE]

\* a requestMove that passes every failure on
requestMove_NoFallback(possibleMoves, api, r) ==
  LET try == requestMoveTry(api) IN
  [threw |-> try.failed, message |-> try.message, move |-> try.move]

\* requestMove for a context whose possibleMoves is the given array (<<>>: empty
\* or undefined), when the API does api and Math.random picks the r-th entry
requestMove(possibleMoves, api, r) ==
  LET try == requestMoveTry(api) IN
  IF ~try.failed
  THEN [threw |-> FALSE, message |-> {}, move |-> try.move]
  ELSE IF Len(possibleMoves) > 0
  THEN [threw |-> FALSE, message |-> {}, move |-> fallbackMove(possibleMoves[r])]
  ELSE [threw |-> TRUE, message |-> try.message, move |-> NoMove]

RECURSIVE MoveStrings(_)
\* possibleMoves.map(m => `${m.from}${m.to}`)
MoveStrings(moves) ==
  IF moves = {} THEN <<>>
  ELSE LET m == CHOOSE x \in moves : TRUE
       IN <<m.from \o m.to>> \o MoveStrings(moves \ {m})

\* the possibleMoves processTurn puts into the context of a request; the position
\* does not change while the request is outstanding
possibleMoves(gm) == MoveStrings(chessMoves(gm))

\* the indices Math.random can pick in an array (1 when there is nothing to pick)
RandomIndices(array) == IF Len(array) = 0 THEN {1} ELSE 1..Len(array)

\* the requestMove of the turn in progress settles, the player being an
\* LLMPlayerImpl: processTurn goes on with the move or the failure
LLMRequestSettles(api, r, k) ==
  LET outcome == requestMove(possibleMoves(gameManager), api, r) IN
  IF outcome.threw
  THEN RequestFails(outcome.message)
  ELSE RequestReturns(outcome.move, k)

\* requestMove is called on an LLMPlayerImpl outside a game, with a context
\* carrying the given possibleMoves
RequestMoveCalled(array, api, r) ==
  /\ moveRequest' = [possibleMoves |-> array, api |-> api, outcome |-> requestMove(array, api, r)]
  /\ lastCall' = None
  /\ UNCHANGED <<configuration, requestError, failuresSinceMove, gamesStarted, timerCall, server>>
  /\ UNCHANGED <<orchestratorVars, loopVars, retryCount, capabilities, currentPlayerColor,
                 timerManager, now, gameManager, rejectedLog>>

\* the possibleMoves of the contexts requestMove is called with outside a game
CalledContexts == { <<>>, <<"e2e4">>, <<"e7e5", "e7e8">> }

\* a game between two LLMPlayerImpl, and requestMove called on its own
NextPlayer ==
  \/ StartGame
  \/ LoopHead
  \/ \E api \in ApiOutcomes, r \in RandomIndices(possibleMoves(gameManager)),
        k \in ClockKinds :
        k \in NextPositionKinds(gameManager) /\ LLMRequestSettles(api, r, k)
  \/ MoveSleepDone
  \/ ForfeitReasonReturns("answered")
  \/ \E array \in CalledContexts, api \in ApiOutcomes :
        \E r \in RandomIndices(array) : RequestMoveCalled(array, api, r)

SpecPlayer == Init /\ [][NextPlayer]_vars

(* ============================== claims ================================ *)

\* the number of times moveStr occurs in a rejection history
Count(log, moveStr) == Cardinality({ i \in 1..Len(log) : log[i] = moveStr })

\* handleError has just resolved an illegal move of player p
IllegalMoveHandled(p) ==
  /\ lastError # NoError
  /\ lastError.type = "InvalidMoveError"
  /\ lastError.player = p

\* C1: an illegal move of participant p on move string m resolves to FORFEIT exactly
\* when the rules engine has rejected m from p three times, and to RETRY on the
\* first and second rejection; rejections of other strings and of the other
\* participant do not count.
C1_ForfeitOnThirdSameMove ==
  \A p \in PlayerColor :
    IllegalMoveHandled(p) =>
      LET n == Count(rejectedLog[p], lastError.move) IN
      /\ lastResolution = FORFEIT <=> n = 3
      /\ lastResolution = RETRY <=> n \in {1, 2}

\* black forfeits on its third e7e8q although white failed on e7e8q twice before
\* and black failed on another string in between
C1_Witness ==
  /\ IllegalMoveHandled(BLACK)
  /\ lastResolution = FORFEIT
  /\ lastError.move = "e7e8q"
  /\ Count(rejectedLog[WHITE], "e7e8q") = 2
  /\ Count(rejectedLog[WHITE], "e7e5") = 2
  /\ Count(rejectedLog[BLACK], "e2e4") >= 1

\* the rejection history is a round-robin a, b, a, b, ... of two distinct strings, at most n long
IsRoundRobin(log, n) ==
  /\ Len(log) <= n
  /\ \E a, b \in MoveStrs :
       /\ a # b
       /\ \A i \in 1..Len(log) : log[i] = IF i % 2 = 1 THEN a ELSE b

ForfeitedByIllegalMove(p) == IllegalMoveHandled(p) /\ lastResolution = FORFEIT

\* C2 as stated: a participant whose rejected attempts are the round-robin
\* A, B, A, B, A, B is not forfeited by any of those six attempts.
C2_RoundRobinOfSixNeverForfeits ==
  \A p \in PlayerColor : IsRoundRobin(rejectedLog[p], 6) => ~ForfeitedByIllegalMove(p)

\* C2 amended: an illegal move forfeits only when some move string has been rejected
\* three times; the round-robin A, B, A, B is not forfeited by any of its four
\* attempts, and its fifth attempt (the third A) is.
C2_NoForfeitBeforeThirdSameMove ==
  \A p \in PlayerColor :
    /\ ForfeitedByIllegalMove(p) => \E m \in MoveStrs : Count(rejectedLog[p], m) >= 3
    /\ IsRoundRobin(rejectedLog[p], 4) => ~ForfeitedByIllegalMove(p)
    /\ (IsRoundRobin(rejectedLog[p], 5) /\ Len(rejectedLog[p]) = 5) => ForfeitedByIllegalMove(p)

\* four alternating rejections have been retried, none forfeited
C2_Witness ==
  \E p \in PlayerColor :
    /\ Len(rejectedLog[p]) = 4
    /\ IsRoundRobin(rejectedLog[p], 4)
    /\ IllegalMoveHandled(p)
    /\ lastResolution = RETRY

\* the tick callback has brought the acting participant's clock to 0 and stopped it
\* while that participant's move request is outstanding
ClockRanOut ==
  /\ pc \in {"requesting", "backoff"}
  /\ timerManager.timers[PlayerId(currentPlayerColor)].remainingTimeMs = 0
  /\ ~timerManager.timers[PlayerId(currentPlayerColor)].isRunning

\* a step of the game loop, as opposed to a pauseGame/resumeGame call or a clock tick
GameLoopStep == lastCall' = None /\ now' = now

\* the step in which the outstanding move request settles and processTurn is left
\* (a failure that is retried after a wait does not leave it)
TurnOutcome == GameLoopStep /\ pc = "requesting" /\ pc' # "backoff"

\* a step in which requestMove is invoked: by a new turn or by the retry after a wait
RequestInvoked == GameLoopStep /\ pc' = "requesting"

\* C3: when the acting participant's remaining time has reached 0 while its move
\* is outstanding, the step that settles that move returns a timeout Result with
\* the opposing colour as winner; it never retries and never forfeits.
C3_TimeoutWhenClockRanOut ==
  [][ (ClockRanOut /\ TurnOutcome) =>
        /\ pc' = "done"
        /\ result'.result = "timeout"
        /\ result'.winner = Opponent(currentPlayerColor) ]_vars

\* C4: a move that arrives after the acting participant's clock reached zero is
\* not applied: across the step that returns the timeout Result the rules
\* engine's position and move history stay as they were.
C4_TimeoutLeavesPositionAlone ==
  [][ (pc = "requesting" /\ pc' = "done" /\ result'.result = "timeout") =>
        /\ gameManager'.plies = gameManager.plies
        /\ gameManager'.moveHistory = gameManager.moveHistory ]_vars

\* the participants whose timer is running
RunningTimers(tm) == { p \in DOMAIN tm.timers : tm.timers[p].isRunning }

\* C5: in every reachable state at most one participant's timer is running.
C5_AtMostOneTimerRunning == Cardinality(RunningTimers(timerManager)) <= 1

\* the game was paused and resumed after white's move: black's timer runs alone
C5_Witness ==
  /\ lastCall = "resumeGame"
  /\ gameStatus = IN_PROGRESS
  /\ moveCount = 1
  /\ RunningTimers(timerManager) = {PlayerId(BLACK)}

\* C6 as stated: under the fairness of LiveSpec (requests return, a paused game
\* is resumed, the rules engine ends the game after MaxPlies legal moves) a
\* started game loop eventually returns a Result.
C6_LoopAlwaysReturns == (pc = "head") ~> (pc = "done" /\ result # NoResult)

\* C6 amended: the same, when in addition pauseGame is called only finitely often.
C6_LoopReturnsWhenPausesStop ==
  (<>[](lastCall # "pauseGame")) => ((pc = "head") ~> (pc = "done" /\ result # NoResult))

\* the loop has returned a Result although the game was paused on the way and
\* never resumed
C6_Witness ==
  /\ pc = "done"
  /\ result.result \in {"win", "draw", "timeout", "forfeit"}
  /\ isPaused
  /\ moveCount > 0

\* C7: from a state with status PAUSED, every step other than a resumeGame call
\* leaves no timer running and leaves getRemainingTime of both participants as it was.
C7_PausedClocksFrozen ==
  [][ (gameStatus = PAUSED /\ lastCall' # "resumeGame") =>
        \A p \in PlayerColor :
          /\ ~timerManager'.timers[PlayerId(p)].isRunning
          /\ getRemainingTime(timerManager', PlayerId(p), now')
               = getRemainingTime(timerManager, PlayerId(p), now) ]_vars

\* C8: requestMove is not invoked while the status is PAUSED, neither by the loop
\* head nor by the retry of a failed request.
C8_NoRequestWhilePaused == [][ RequestInvoked => gameStatus' # PAUSED ]_vars

\* C9: a resumeGame call that takes effect leaves running exactly the timer of
\* the acting participant. The acting participant is the loop's current player:
\* every move request is made to it, and it changes only when a turn completes.
C9_ResumeStartsActingTimer ==
  [][ /\ (lastCall' = "resumeGame" /\ gameStatus = PAUSED /\ gameStatus' = IN_PROGRESS) =>
           RunningTimers(timerManager') = {PlayerId(currentPlayerColor)}
      /\ RequestInvoked => gameContext'.player = currentPlayerColor'
      /\ currentPlayerColor' # currentPlayerColor => pc' = "moveSleep" ]_vars

\* the game is resumed while the loop polls the pause after white's move: the
\* timer of black, who is asked next, is the one that runs
C9_Witness ==
  /\ lastCall = "resumeGame"
  /\ gameStatus = IN_PROGRESS
  /\ pc = "pausedSleep"
  /\ currentPlayerColor = BLACK
  /\ timerManager.timers[PlayerId(BLACK)].isRunning
  /\ ~timerManager.timers[PlayerId(WHITE)].isRunning

\* C10: a pauseGame call from IN_PROGRESS sets status PAUSED and the paused flag,
\* a resumeGame call from PAUSED sets status IN_PROGRESS and clears the flag; from
\* every other status either call leaves status, flag and timers unchanged.
C10_PauseResumeOnlyFromTheirStatus ==
  [][ /\ lastCall' = "pauseGame" =>
           IF gameStatus = IN_PROGRESS
           THEN gameStatus' = PAUSED /\ isPaused'
           ELSE UNCHANGED <<gameStatus, isPaused, timerManager>>
      /\ lastCall' = "resumeGame" =>
           IF gameStatus = PAUSED
           THEN gameStatus' = IN_PROGRESS /\ ~isPaused'
           ELSE UNCHANGED <<gameStatus, isPaused, timerManager>> ]_vars

\* resumeGame was called on a game that timed out while paused: nothing changed,
\* the paused flag included
C10_Witness ==
  /\ lastCall = "resumeGame"
  /\ gameStatus = TIMEOUT
  /\ isPaused

\* the orchestrator statuses that match a Result of the given kind
TerminalStatusOf(kind) ==
  IF kind = "win" THEN {CHECKMATE}
  ELSE IF kind = "draw" THEN {DRAW, STALEMATE}
  ELSE IF kind = "timeout" THEN {TIMEOUT}
  ELSE IF kind = "forfeit" THEN {STATUS_FORFEIT}
  ELSE {}

\* C11: once processGameLoop has returned a Result, the orchestrator's status is
\* the terminal status of that Result's kind, and pauseGame and resumeGame leave
\* status, paused flag and timers as they are.
C11_ResultLeavesTerminalStatus ==
  [][ pc' = "done" =>
        /\ gameStatus' \in TerminalStatusOf(result'.result)
        /\ pc = "done" => UNCHANGED <<gameStatus, isPaused, timerManager>> ]_vars

\* the number of moves of one colour the rules engine has applied
AppliedMoves(gm, color) ==
  Cardinality({ i \in 1..Len(gm.moveHistory) :
                  gm.moveHistory[i].color = color /\ gm.moveHistory[i].notation # "forfeit" })

\* C12: in a Fischer game in which no clock time has been consumed, each
\* participant's remaining time is its initial allotment plus its configured
\* increment for every move of that participant the loop has applied.
C12_FischerAddsConfiguredIncrement ==
  (configuration.timerType = FISCHER /\ now = 0 /\ pc # "idle") =>
    \A p \in PlayerColor :
      getRemainingTime(timerManager, PlayerId(p), now)
        = PlayerConfig(configuration, p).initialTimeMs
            + AppliedMoves(gameManager, p) * PlayerConfig(configuration, p).incrementMs

\* C13: in a Bronstein game no participant's remaining time exceeds the allotment
\* that participant was initialized with, and addIncrement does not lower the
\* remaining time of the participant it is called for.
C13_BronsteinWithinOwnAllotment ==
  (configuration.timerType = BRONSTEIN /\ pc # "idle") =>
    \A p \in PlayerColor :
      /\ timerManager.timers[PlayerId(p)].remainingTimeMs
           <= PlayerConfig(configuration, p).initialTimeMs
      /\ addIncrement(timerManager, PlayerId(p), LoopIncrementMs).timers[PlayerId(p)].remainingTimeMs
           >= timerManager.timers[PlayerId(p)].remainingTimeMs

\* a step in which the outstanding move request is rejected, under a specification
\* whose moves are legal: no move is applied, whether the request is retried or
\* given up
RequestFailure ==
  /\ GameLoopStep
  /\ pc = "requesting"
  /\ moveCount' = moveCount
  /\ lastError'.type # "TimeoutError"

\* C14: a move request that fails with a rate limit, the third in a row that
\* exhausts the attempts of the turn included, is counted neither in the
\* illegal-move ledger nor in the participant's generic retry counter.
C14_RateLimitsNotCounted ==
  [][ RequestFailure => UNCHANGED <<invalidMoveAttempts, retryCount>> ]_vars

\* the wait the retry sub-protocol is described to make after a failure
DescribedWaitMs(message) ==
  IF Includes(message, "Rate limit") THEN 15000
  ELSE IF Includes(message, "No JSON found") THEN 2000
  ELSE 3000

\* C15: within one turn the move request is attempted at most 3 times; a failure
\* of the 1st or 2nd attempt is followed by a wait (15000 ms for a rate limit,
\* 2000 ms for an unparsable response, 3000 ms otherwise) and a retry, and a
\* failure is passed to handleError only when it is the 3rd of the turn.
C15_ThreeAttemptsWithWaits ==
  [][ /\ attemptCount' < maxAttempts
      /\ RequestFailure =>
           IF attemptCount + 1 < maxAttempts
           THEN /\ pc' = "backoff"
                /\ requestError' # <<>>
                /\ sleepMs' = DescribedWaitMs(requestError'[1])
           ELSE pc' # "backoff" ]_vars

\* the step in which the third move request of a turn, made after two failed
\* attempts and their waits, resolves with a move that the rules engine applies
ThirdAttemptSucceeds ==
  /\ GameLoopStep
  /\ pc = "requesting"
  /\ attemptCount = 2
  /\ gameManager'.plies = gameManager.plies + 1

\* what C16 describes of a turn whose requests meet rate limits: every wait is
\* 15000 ms long and counts one failed attempt, and the move is applied, the turn
\* advanced and the illegal-move ledger left alone
RateLimitedTurnProceeds(succeeds) ==
  /\ (GameLoopStep /\ pc = "requesting" /\ pc' = "backoff") =>
        sleepMs' = 15000 /\ attemptCount' = attemptCount + 1
  /\ (GameLoopStep /\ pc = "backoff") =>
        pc' = "requesting" /\ attemptCount' = attemptCount
  /\ succeeds =>
        /\ pc' = "moveSleep"
        /\ attemptCount' = 2
        /\ currentPlayerColor' = Opponent(currentPlayerColor)
        /\ moveCount' = moveCount + 1
        /\ invalidMoveAttempts' = invalidMoveAttempts
        /\ result' = NoResult

GenericFailureHandled(p) ==
  /\ TurnOutcome
  /\ moveCount' = moveCount
  /\ lastError'.type = "Error"
  /\ lastError'.player = p

\* C17: a parse/format or unclassified failure reaching handleError increments the
\* participant's retry counter and resolves to RETRY while the new count is below
\* 3 and to FORFEIT otherwise; the counter is cleared only when that participant
\* completes a legal move, so the forfeit falls on the participant's 3rd such
\* failure since its last applied move and never earlier.
C17_ForfeitOnThirdFailureSinceMove ==
  [][ \A p \in PlayerColor :
        /\ GenericFailureHandled(p) =>
             /\ retryCount'[p] = retryCount[p] + 1
             /\ lastResolution' = (IF retryCount'[p] < 3 THEN RETRY ELSE FORFEIT)
             /\ lastResolution' = (IF failuresSinceMove'[p] < 3 THEN RETRY ELSE FORFEIT)
        /\ retryCount'[p] < retryCount[p] =>
             /\ retryCount'[p] = 0
             /\ currentPlayerColor = p
             /\ moveCount' = moveCount + 1 ]_vars

\* the step that completes a turn after a legal move
TurnCompletes == GameLoopStep /\ pc # "moveSleep" /\ pc' = "moveSleep"

\* a step in which the rules engine rejects a move of participant p
MoveRejected(p) == rejectedLog'[p] # rejectedLog[p]

RetryResolved ==
  /\ GameLoopStep
  /\ lastResolution' = RETRY
  /\ \E p \in PlayerColor : MoveRejected(p) \/ GenericFailureHandled(p)

\* C19: a failure resolved as RETRY does not advance the turn: the participant
\* asked for the next move is the same participant, moveCount is unchanged, and
\* the rules engine holds the position the failed turn started from (the moves of
\* the completed turns and no other).
C19_RetryKeepsTurnAndPosition ==
  [][ RetryResolved =>
        /\ currentPlayerColor' = currentPlayerColor
        /\ moveCount' = moveCount
        /\ pc' = "requesting" => gameContext'.player = currentPlayerColor
        /\ gameManager' = gameManager
        /\ gameManager'.plies = moveCount' ]_vars

\* a step in which the move returned by the request is applied while the mover
\* has time left; the moves fed to the loop include those that carry a draw offer
MoveAppliedInTime ==
  /\ GameLoopStep
  /\ pc = "requesting"
  /\ gameManager'.plies = gameManager.plies + 1
  /\ lastError'.type # "TimeoutError"

\* C20: an applied move that carries a draw offer has one of two outcomes. The
\* offer is ignored (no capability) or declined: the turn advances as after any
\* move, no Result is produced and no failure is recorded against the offering
\* participant. Or the offer is accepted: the loop returns a draw by agreement.
C20_DrawOfferIgnoredAcceptedOrDeclined ==
  [][ MoveAppliedInTime =>
        \/ /\ pc' = "moveSleep"
           /\ currentPlayerColor' = Opponent(currentPlayerColor)
           /\ moveCount' = moveCount + 1
           /\ result' = NoResult
           /\ lastError' = lastError
           /\ retryCount'[currentPlayerColor] = 0
        \/ /\ pc' = "done"
           /\ result'.result = "draw"
           /\ result'.drawReason = "agreement" ]_vars

(* ---- C21, C22: results of a game that ends by timeout or forfeit ------ *)

\* C21: every Result processGameLoop returns has a non-empty reason, and a
\* timeout or forfeit Result names as winner the colour opposite to the
\* participant who timed out or forfeited (the participant whose turn raised
\* the failure that handleError resolved as END_GAME or FORFEIT).
C21_ResultHasReasonAndWinner ==
  pc = "done" =>
    /\ result.reason # ""
    /\ result.result \in {"timeout", "forfeit"} =>
         /\ lastError.player \in PlayerColor
         /\ result.winner = Opponent(lastError.player)
         /\ lastResolution = (IF result.result = "timeout" THEN END_GAME ELSE FORFEIT)
         /\ (result.result = "timeout") = (lastError.type = "TimeoutError")

\* black forfeits after white's move: white is named as the winner
C21_Witness ==
  /\ pc = "done"
  /\ result.result = "forfeit"
  /\ result.winner = WHITE
  /\ lastError.player = BLACK
  /\ moveCount = 1

\* the synthetic entries of a move history
ForfeitEntries(gm) ==
  { i \in 1..Len(gm.moveHistory) : gm.moveHistory[i].notation = "forfeit" }

\* handleError resolves the failure of the turn in progress as FORFEIT
ForfeitResolved == GameLoopStep /\ pc = "requesting" /\ lastResolution' = FORFEIT

\* the loop returns the forfeit of participant p with one more synthetic entry
ForfeitReturned(p) ==
  /\ pc' = "done"
  /\ result'.result = "forfeit"
  /\ result'.winner = Opponent(p)
  /\ Cardinality(ForfeitEntries(gameManager')) = Cardinality(ForfeitEntries(gameManager)) + 1
  /\ gameManager'.moveHistory[Len(gameManager'.moveHistory)] = [color |-> p, notation |-> "forfeit"]

\* the reasons of a forfeit Result that carry no explanation of participant p
TemplatedDefaults(p) ==
  { p \o " forfeited: " \o d : d \in {ForfeitDefaultWithMoves, ForfeitDefault} }

\* C22: on a FORFEIT resolution the loop appends exactly one synthetic forfeit
\* entry carrying the forfeiting colour and returns Result{forfeit} with the
\* opposite colour as winner, however the question for an explanation ends;
\* without the ask capability, or when the ask fails, the reason is a
\* templated default.
C22_ForfeitAlwaysProduced ==
  [][ /\ ForfeitResolved =>
           IF capabilities.askLLM
           THEN pc' = "askForfeit" /\ result' = NoResult /\ ForfeitEntries(gameManager') = {}
           ELSE /\ ForfeitReturned(currentPlayerColor)
                /\ result'.reason \in TemplatedDefaults(currentPlayerColor)
      /\ (pc = "askForfeit" /\ pc' # "askForfeit") => ForfeitReturned(lastError.player)
      /\ ForfeitReasonReturns("failed") =>
           result'.reason \in TemplatedDefaults(lastError.player)
      /\ ForfeitEntries(gameManager') # ForfeitEntries(gameManager) =>
           /\ lastResolution' = FORFEIT
           /\ Cardinality(ForfeitEntries(gameManager')) = 1 ]_vars

\* white is forfeited on rejected moves, the question fails, the default names the moves
C22_Witness ==
  /\ pc = "done"
  /\ capabilities.askLLM
  /\ result.result = "forfeit"
  /\ result.winner = BLACK
  /\ result.reason = "white forfeited: " \o ForfeitDefaultWithMoves
  /\ Cardinality(ForfeitEntries(gameManager)) = 1

(* ---- C23, C24, C25: startGame ----------------------------------------- *)

\* startGame is called
StartGameCalled == gamesStarted' = gamesStarted + 1

\* C23: when game or timer initialization fails, startGame rejects and the
\* status is NOT_STARTED afterwards, until the next startGame; when it does not
\* fail, startGame sets the status IN_PROGRESS, each participant's remaining
\* time is its configured initialTimeMs, and the return of startGame leaves
\* both as they are.
C23_StartFailsToNotStarted ==
  [][ /\ (StartGameCalled /\ pc' = "startFailed") =>
           /\ gameStatus' = NOT_STARTED
           /\ pc # "idle" => result' = NoResult
      /\ (pc' = "startFailed") => gameStatus' = NOT_STARTED
      /\ (StartGameCalled /\ pc' # "startFailed") =>
           /\ pc' \in {"saving", "head"}
           /\ gameStatus' = IN_PROGRESS
           /\ \A p \in PlayerColor :
                /\ TimerFound(timerManager', PlayerId(p))
                /\ getRemainingTime(timerManager', PlayerId(p), now') =
                     PlayerConfig(configuration, p).initialTimeMs
      /\ (pc = "saving" /\ pc' = "head") =>
           /\ gameStatus' = gameStatus
           /\ gameStatus' \in {IN_PROGRESS, PAUSED}
           /\ timerManager' = timerManager
      /\ (gameStatus = NOT_STARTED /\ gameStatus' # NOT_STARTED) =>
           StartGameCalled /\ gameStatus' = IN_PROGRESS ]_vars

\* the initialization of black's timer failed: the rules engine and white's timer
\* are set up, the status is NOT_STARTED
C23_Witness ==
  /\ pc = "startFailed"
  /\ gameStatus = NOT_STARTED
  /\ gamesStarted = 1
  /\ gameManager.gameStatus = IN_PROGRESS
  /\ TimerFound(timerManager, PlayerId(WHITE))
  /\ ~TimerFound(timerManager, PlayerId(BLACK))

\* C24: a failure of stateManager.saveConfiguration does not abort the start:
\* however the save ends, startGame completes, the status stays IN_PROGRESS
\* (PAUSED after a pauseGame call) and the game loop can run.
C24_SaveFailureDoesNotAbortStart ==
  [][ (pc = "saving" /\ pc' # "saving") =>
         /\ pc' = "head"
         /\ gameStatus' = gameStatus
         /\ gameStatus' \in {IN_PROGRESS, PAUSED} ]_vars

\* C25: after every startGame that does not fail, a second one on the same
\* orchestrator included, moveCount is 0, the paused flag is false and the
\* illegal-move ledger and the pending feedback are empty for both participants.
C25_StartGameClearsSession ==
  [][ (StartGameCalled /\ pc' \in {"saving", "head"}) =>
         /\ moveCount' = 0
         /\ ~isPaused'
         /\ \A p \in PlayerColor :
              /\ \A m \in MoveStrs : invalidMoveAttempts'[PlayerId(p)][m] = 0
              /\ lastInvalidMoveReason'[PlayerId(p)] = NoFeedback ]_vars

(* ---- C26: feedback on a rejected move --------------------------------- *)

\* processTurn starts: the context of a new move request is built
TurnStarts == GameLoopStep /\ pc # "backoff" /\ pc' = "requesting"

\* the feedback on the latest rejection of participant p: the move and the number
\* of times the rules engine has rejected it for p
RejectionFeedback(log) ==
  [move |-> log[Len(log)], attempt |-> Count(log, log[Len(log)])]

\* C26: the feedback stored by an illegal-move RETRY (move and attempt number)
\* is in the context of that participant's next move request and is then
\* cleared: a request carries feedback only on the first turn after the
\* rejection (directly, or when a paused loop wakes), only for the participant
\* whose move was rejected, and feedback is never pending for the other one.
C26_FeedbackDeliveredOnce ==
  [][ /\ \A p \in PlayerColor :
           (MoveRejected(p) /\ lastResolution' = RETRY) =>
              IF pc' = "requesting"
              THEN /\ gameContext'.player = p
                   /\ gameContext'.invalidMoveFeedback = RejectionFeedback(rejectedLog'[p])
                   /\ lastInvalidMoveReason'[PlayerId(p)] = NoFeedback
              ELSE /\ pc' = "pausedSleep"
                   /\ lastInvalidMoveReason'[PlayerId(p)] = RejectionFeedback(rejectedLog'[p])
      /\ TurnStarts =>
           LET p == gameContext'.player IN
           /\ p = currentPlayerColor'
           /\ gameContext'.invalidMoveFeedback =
                (IF MoveRejected(p) THEN RejectionFeedback(rejectedLog'[p])
                 ELSE lastInvalidMoveReason[PlayerId(p)])
           /\ \A q \in PlayerColor : lastInvalidMoveReason'[PlayerId(q)] = NoFeedback
      /\ (pc = "backoff" /\ pc' = "requesting") => gameContext' = gameContext
      /\ \A p \in PlayerColor :
           lastInvalidMoveReason'[PlayerId(p)] # NoFeedback =>
              /\ p = currentPlayerColor'
              /\ pc' \in {"pausedSleep", "askForfeit", "done"}
              /\ lastInvalidMoveReason'[PlayerId(p)] = RejectionFeedback(rejectedLog'[p])
              /\ lastError'.type = "InvalidMoveError"
              /\ lastError'.player = p
              /\ (pc' = "pausedSleep") = (lastResolution' = RETRY) ]_vars

\* black's e2e4 was rejected a second time: the request the loop now makes to black
\* carries the feedback on it and nothing is left in the map
C26_Witness ==
  /\ pc = "requesting"
  /\ gamesStarted = 1
  /\ moveCount = 1
  /\ gameContext.player = BLACK
  /\ gameContext.invalidMoveFeedback = [move |-> "e2e4", attempt |-> 2]
  /\ lastInvalidMoveReason[PlayerId(BLACK)] = NoFeedback
  /\ lastError.type = "InvalidMoveError"
  /\ lastCall = None
  /\ gameStatus = IN_PROGRESS
  /\ ~isPaused
  /\ rejectedLog[BLACK] = <<"e2e4", "e2e4">>

(* ---- C27, C28: results read from the position ------------------------- *)

\* the participant that made the last move applied by the rules engine
LastMover(gm) == gm.moveHistory[gm.plies].color

\* C27: when the position after a legal move is checkmate, the loop asks for no
\* further move and the Result it returns is a win of the participant that made
\* the move, with a reason that mentions Checkmate.
C27_CheckmateIsWinOfMover ==
  gameManager.gameStatus = CHECKMATE =>
    /\ pc \in {"moveSleep", "done"}
    /\ pc = "done" =>
         /\ result.result = "win"
         /\ result.winner = LastMover(gameManager)
         /\ result.reason = "Checkmate"

\* the draw conditions in the order stalemate, insufficient material, threefold
\* repetition, fifty-move rule: the first that holds of a position
FirstDrawCondition(flags) ==
  IF "stalemate" \in flags THEN "stalemate"
  ELSE IF "insufficient" \in flags THEN "insufficient_material"
  ELSE IF "threefold" \in flags THEN "threefold_repetition"
  ELSE IF "fifty" \in flags THEN "fifty_move_rule"
  ELSE None

\* C28: when the loop returns because the position after a move is a draw, the
\* Result's drawReason is the first draw condition that holds of the position;
\* a draw by threefold repetition is reported as THREEFOLD_REPETITION.
C28_DrawReasonByPriority ==
  (pc = "done" /\ result.result = "draw" /\ chessIsDraw(gameManager.flags)) =>
     result.drawReason = FirstDrawCondition(gameManager.flags)

(* ---- C29, C30: the fields of a participant's timer -------------------- *)

\* C29: the stored remaining time of a participant is never negative; the tick
\* that takes a running timer's last 100 ms or less leaves it at exactly 0 and
\* paused, the stored time reaches 0 in no other way, and from then on it stays
\* 0, isTimeExpired is true and getRemainingTime is 0.
C29_RemainingTimeStopsAtZero ==
  [][ \A p \in PlayerColor :
        TimerFound(timerManager', PlayerId(p)) =>
          LET after == timerManager'.timers[PlayerId(p)]
              known == TimerFound(timerManager, PlayerId(p))
              before == timerManager.timers[PlayerId(p)]
          IN /\ after.remainingTimeMs >= 0
             /\ (known /\ before.isRunning /\ now' # now /\ before.remainingTimeMs <= TickMs) =>
                   /\ after.remainingTimeMs = 0
                   /\ ~after.isRunning
                   /\ PlayerId(p) \notin timerManager'.intervals
             /\ (known /\ before.remainingTimeMs > 0 /\ after.remainingTimeMs = 0) =>
                   /\ now' # now
                   /\ before.isRunning
                   /\ ~after.isRunning
             /\ (known /\ before.remainingTimeMs = 0) => after.remainingTimeMs = 0
             /\ after.remainingTimeMs = 0 =>
                   /\ isTimeExpired(timerManager', PlayerId(p), now')
                   /\ getRemainingTime(timerManager', PlayerId(p), now') = 0 ]_vars

\* white's time ran out during its first turn and the tick paused its timer; a
\* rejected move later the loop has started the timer again, still at 0
C29_Witness ==
  /\ pc = "requesting"
  /\ currentPlayerColor = WHITE
  /\ moveCount = 0
  /\ now = MaxTicks * TickMs
  /\ timerManager.timers[PlayerId(WHITE)].remainingTimeMs = 0
  /\ timerManager.timers[PlayerId(WHITE)].isRunning
  /\ isTimeExpired(timerManager, PlayerId(WHITE), now)
  /\ Len(rejectedLog[WHITE]) = 1

\* C30 as stated: the last-start timestamp of a timer is present if and only
\* if the timer is running.
C30_StartTimePresentIffRunning ==
  \A p \in PlayerColor :
    TimerFound(timerManager, PlayerId(p)) =>
      ((timerManager.timers[PlayerId(p)].lastStartTime # NoTime) <=>
         timerManager.timers[PlayerId(p)].isRunning)

\* C30: the last-start timestamp of a timer is present if the timer is running:
\* a running timer carries the instant of its latest start.
C30_RunningTimerHasStartTime ==
  \A p \in PlayerColor :
    (TimerFound(timerManager, PlayerId(p)) /\ timerManager.timers[PlayerId(p)].isRunning) =>
       /\ timerManager.timers[PlayerId(p)].lastStartTime \notin {NoTime, Stale}
       /\ timerManager.timers[PlayerId(p)].lastStartTime \in 0..now

\* white's timer was stopped after its move and keeps a timestamp; black's timer was
\* started one tick later
C30_Witness ==
  /\ pc = "requesting"
  /\ currentPlayerColor = BLACK
  /\ ~timerManager.timers[PlayerId(WHITE)].isRunning
  /\ timerManager.timers[PlayerId(WHITE)].lastStartTime = Stale
  /\ timerManager.timers[PlayerId(BLACK)].isRunning
  /\ timerManager.timers[PlayerId(BLACK)].lastStartTime = TickMs

(* ---- C31, C32: timer calls that find nothing to do --------------------- *)

\* the timer of the participant the last step's call named existed before the call
CalledTimerFound == TimerFound(timerManager, timerCall'.playerId)

\* ... and was running before the call
CalledTimerRunning ==
  CalledTimerFound /\ timerManager.timers[timerCall'.playerId].isRunning

\* C31: startTimer on a timer that is already running returns and leaves the timer
\* manager as it was (remaining time, start instant, scheduled tick); pauseTimer on a
\* timer that is not running returns 0 and leaves the timer manager as it was.
C31_NoOpWhenNothingToDo ==
  [][ /\ (timerCall'.op = "startTimer" /\ CalledTimerRunning)
         => (~timerCall'.threw /\ timerManager' = timerManager)
      /\ (timerCall'.op = "pauseTimer" /\ CalledTimerFound /\ ~CalledTimerRunning)
         => (~timerCall'.threw /\ timerCall'.value = 0 /\ timerManager' = timerManager)
    ]_vars

\* startTimer has just returned for a timer that was started at an earlier instant
\* and has been ticking since
C31_Witness ==
  /\ timerCall.op = "startTimer"
  /\ ~timerCall.threw
  /\ LET timer == timerManager.timers[timerCall.playerId] IN
       /\ timer.isRunning
       /\ timer.lastStartTime >= 0
       /\ timer.lastStartTime < now
       /\ timer.remainingTimeMs < TimerAllotmentMs

\* the methods that begin by looking the timer up and throwing when there is none
LookupMethods == {"startTimer", "pauseTimer", "getRemainingTime", "addIncrement", "isTimeExpired"}

\* C32: startTimer, pauseTimer, getRemainingTime, addIncrement and isTimeExpired called
\* on an id that has no timer throw 'Timer not found' and leave the timer manager as
\* it was; resetTimer on such an id returns and creates a stopped timer for it; apart
\* from the initialisation itself (initializeTimer) no other method adds a timer.
C32_AbsentTimerFailsExceptReset ==
  [][ /\ (timerCall'.op \in LookupMethods /\ ~CalledTimerFound)
         => (timerCall'.threw /\ timerManager' = timerManager)
      /\ (timerCall'.op = "resetTimer" /\ ~CalledTimerFound)
         => /\ ~timerCall'.threw
            /\ TimerFound(timerManager', timerCall'.playerId)
            /\ ~timerManager'.timers[timerCall'.playerId].isRunning
            /\ \A id \in DOMAIN timerManager.timers :
                  timerManager'.timers[id] = timerManager.timers[id]
      /\ (DOMAIN timerManager'.timers # DOMAIN timerManager.timers)
         => timerCall'.op \in {"initializeTimer", "resetTimer"}
    ]_vars

\* addIncrement has just thrown for an id without a timer while the other
\* participant's timer is running
C32_Witness ==
  /\ timerCall.op = "addIncrement"
  /\ timerCall.threw
  /\ ~TimerFound(timerManager, timerCall.playerId)
  /\ \E id \in DOMAIN timerManager.timers : timerManager.timers[id].isRunning

(* ---- C33, C34: the loop's bookkeeping against the rules engine ---------- *)

\* C33: whenever a move request is outstanding, the participant that was asked, who
\* is PlayerManager's current player, is the side to move in the rules engine's
\* position.
C33_AskedPlayerIsSideToMove ==
  pc = "requesting" =>
     /\ gameContext.player = currentPlayerColor
     /\ currentPlayerColor = chessTurn(gameManager)

\* C34: the moveCount of the Result processGameLoop returned is the number of moves
\* the loop applied to the rules engine in the game (the forfeit entry is not one).
C34_ResultCountsAppliedMoves ==
  result # NoResult => result.moveCount = gameManager.plies

(* ---- C35, C36: the tick intervals and the time they charge ------------- *)

\* C35: a participant has a live tick interval exactly when its timer is running,
\* and never more than one.
C35_OneTickIffRunning ==
  \A id \in PlayerColor :
    /\ timerManager.live[id] > 0
         <=> (TimerFound(timerManager, id) /\ timerManager.timers[id].isRunning)
    /\ timerManager.live[id] <= 1

\* the absolute difference of two times
Distance(a, b) == IF a >= b THEN a - b ELSE b - a

\* C36: for a running timer, getRemainingTime now and getRemainingTime right after
\* pauseTimer at the same instant differ by at most one tick: the time since the
\* start is charged once.
C36_RunningTimeChargedOnce ==
  \A id \in DOMAIN timerManager.timers :
    timerManager.timers[id].isRunning =>
      Distance(getRemainingTime(timerManager, id, now),
               getRemainingTime(pauseTimer(timerManager, id), id, now)) <= TickMs

(* ---- C37: the server's gameInProgress flag ------------------------------ *)

\* the handlers whose game has a processGameLoop pending (the game is being
\* started or its timeout is set) or running
GamesUnderWay ==
  { i \in 1..MaxServerStarts : server.handlers[i].pc \in {"starting", "scheduled", "looping"} }

\* the handlers whose processGameLoop call is running
LoopsRunning == { i \in 1..MaxServerStarts : server.handlers[i].pc = "looping" }

\* C37: gameInProgress is true exactly while a started game has a pending or running
\* processGameLoop, and at most one processGameLoop runs at a time. (A start that
\* failed leaves no loop pending, so by the first part gameInProgress is false after
\* it and the next 'game:start' is not rejected.)
C37_InProgressIffOneLoop ==
  /\ server.gameInProgress <=> GamesUnderWay # {}
  /\ Cardinality(LoopsRunning) <= 1

(* ---- C38: the fallback move of LLMPlayerImpl ---------------------------- *)

\* the try block of the recorded requestMove call failed: the API call was
\* rejected or parseMove threw on the text
RecordedTryFailed == requestMoveTry(moveRequest.api).failed

\* C38: requestMove throws only when the context carries no possible move; when
\* the API call or the parsing fails and possibleMoves is not empty it returns a
\* move whose string is an entry of possibleMoves; and in a game between two
\* LLMPlayerImpl processTurn is never in a backoff wait while the position has a
\* legal move.
C38_FailureOnlyWithoutLegalMoves ==
  /\ moveRequest.outcome.threw => Len(moveRequest.possibleMoves) = 0
  /\ (RecordedTryFailed /\ Len(moveRequest.possibleMoves) > 0)
       => /\ ~moveRequest.outcome.threw
          /\ \E i \in 1..Len(moveRequest.possibleMoves) :
                MoveStr(moveRequest.outcome.move) = moveRequest.possibleMoves[i]
  /\ pc = "backoff" => possibleMoves(gameManager) = <<>>

\* requestMove was called with two possible moves, the API call hit the rate
\* limit, and the call returned the second of the moves
C38_Witness ==
  /\ moveRequest.api.rejected
  /\ Includes(moveRequest.api.message, "Rate limit")
  /\ Len(moveRequest.possibleMoves) = 2
  /\ ~moveRequest.outcome.threw
  /\ MoveStr(moveRequest.outcome.move) = moveRequest.possibleMoves[2]

====
